---- MODULE Spec2Model ----
(***************************************************************************)
(* A model of the agent loop of manole: Agent.run (src/agent.py) together  *)
(* with the collaborators it drives, the tool registry (src/tools.py), the *)
(* toolbox (src/toolbox.py), the fallback router (src/router.py), the      *)
(* keyword extractor (src/searcher.py) and the JSON helper                 *)
(* (src/parser.py).  Python strings are TLA+ strings; a Python value that  *)
(* can be of several types is a record tagged by the field t.              *)
(***************************************************************************)
EXTENDS Integers, Sequences, FiniteSets, TLC

(***************************************************************************)
(* Bounds of the model.                                                    *)
(***************************************************************************)
\* Longest caller-supplied history that is enumerated.
MaxTurns == 3

(***************************************************************************)
(* Python str primitives.                                                  *)
(***************************************************************************)
Min(S) == CHOOSE m \in S : \A n \in S : m <= n

Max(S) == CHOOSE m \in S : \A n \in S : m >= n

\* s[i-1:i]: the character at the 1-based index i, "" outside the string.
Ch(s, i) == IF i >= 1 /\ i <= Len(s) THEN SubSeq(s, i, i) ELSE ""

\* s[i-1:] for a 1-based index i.
From(s, i) == IF i > Len(s) THEN "" ELSE SubSeq(s, i, Len(s))

\* s[i-1:j-1]: the characters at the 1-based indices i..j-1.
Slice(s, i, j) == IF j <= i THEN "" ELSE SubSeq(s, i, j - 1)

\* s.startswith(sub, i-1)
StartsAt(s, sub, i) == i >= 1 /\ i + Len(sub) - 1 <= Len(s) /\ SubSeq(s, i, i + Len(sub) - 1) = sub

\* s.find(sub, i-1) + 1: the first index >= i where sub starts, 0 when there is none.
Find(s, sub, i) ==
    LET hits == {k \in i..(Len(s) - Len(sub) + 1) : StartsAt(s, sub, k)}
    IN  IF hits = {} THEN 0 ELSE Min(hits)

\* s.rfind(sub, lo-1, hi-1) + 1: the last start in lo..hi-Len(sub), 0 when there is none.
RFind(s, sub, lo, hi) ==
    LET hits == {k \in lo..(hi - Len(sub)) : StartsAt(s, sub, k)}
    IN  IF hits = {} THEN 0 ELSE Max(hits)

\* sub in s
Contains(s, sub) == Find(s, sub, 1) # 0

UpperChars == <<"A","B","C","D","E","F","G","H","I","J","K","L","M",
                "N","O","P","Q","R","S","T","U","V","W","X","Y","Z">>

LowerChars == <<"a","b","c","d","e","f","g","h","i","j","k","l","m",
                "n","o","p","q","r","s","t","u","v","w","x","y","z">>

Digits == {"0","1","2","3","4","5","6","7","8","9"}

LowerChar(c) ==
    LET hits == {k \in 1..26 : UpperChars[k] = c}
    IN  IF hits = {} THEN c ELSE LowerChars[CHOOSE k \in hits : TRUE]

RECURSIVE Lower(_)
\* s.lower()
Lower(s) == IF s = "" THEN "" ELSE LowerChar(Ch(s, 1)) \o Lower(From(s, 2))

\* A character of the regex class \w (ASCII letters, digits, underscore).
IsWord(c) ==
    \/ c \in Digits
    \/ c = "_"
    \/ \E k \in 1..26 : c = UpperChars[k] \/ c = LowerChars[k]

\* A character of the regex class \s, and of str.split() / str.strip().
IsSpace(c) == c \in {" ", "\n", "\t", "\r"}

RECURSIVE LStrip(_)
LStrip(s) == IF s # "" /\ IsSpace(Ch(s, 1)) THEN LStrip(From(s, 2)) ELSE s

RECURSIVE RStrip(_)
RStrip(s) == IF s # "" /\ IsSpace(Ch(s, Len(s))) THEN RStrip(SubSeq(s, 1, Len(s) - 1)) ELSE s

\* s.strip()
Strip(s) == RStrip(LStrip(s))

RECURSIVE RStripChar(_, _)
\* s.rstrip(c) for a single character c
RStripChar(s, c) == IF s # "" /\ Ch(s, Len(s)) = c THEN RStripChar(SubSeq(s, 1, Len(s) - 1), c) ELSE s

RECURSIVE Remove(_, _)
\* s.replace(c, "") for a single character c
Remove(s, c) ==
    IF s = "" THEN ""
    ELSE (IF Ch(s, 1) = c THEN "" ELSE Ch(s, 1)) \o Remove(From(s, 2), c)

RECURSIVE SplitFrom(_, _, _)
\* The words of s from index i on, cur being the word read so far.
SplitFrom(s, i, cur) ==
    IF i > Len(s) THEN (IF cur = "" THEN <<>> ELSE <<cur>>)
    ELSE IF IsSpace(Ch(s, i))
         THEN (IF cur = "" THEN <<>> ELSE <<cur>>) \o SplitFrom(s, i + 1, "")
         ELSE SplitFrom(s, i + 1, cur \o Ch(s, i))

\* s.split()
Split(s) == SplitFrom(s, 1, "")

RECURSIVE Join(_, _)
\* sep.join(words)
Join(sep, words) ==
    IF words = <<>> THEN ""
    ELSE IF Len(words) = 1 THEN words[1]
    ELSE words[1] \o sep \o Join(sep, Tail(words))

\* The elements of a sequence.
Range(seq) == {seq[i] : i \in 1..Len(seq)}

\* any(k in s for k in keys)
ContainsAny(s, keys) == \E k \in keys : Contains(s, k)

(***************************************************************************)
(* Python values.  A value is a record tagged by t: "str" (payload s),     *)
(* "int" and "bool" (payload n), "none", "dict" (payload m, a function     *)
(* from keys to values) and "list" (payload m, a sequence of values).      *)
(***************************************************************************)
PStr(s) == [t |-> "str", s |-> s, n |-> 0, m |-> <<>>]

PInt(n) == [t |-> "int", s |-> "", n |-> n, m |-> <<>>]

PBool(b) == [t |-> "bool", s |-> "", n |-> IF b THEN 1 ELSE 0, m |-> <<>>]

PNone == [t |-> "none", s |-> "", n |-> 0, m |-> <<>>]

PDict(m) == [t |-> "dict", s |-> "", n |-> 0, m |-> m]

PList(m) == [t |-> "list", s |-> "", n |-> 0, m |-> m]

EmptyDict == PDict(<<>>)

\* key in d, for a dict d
HasKey(d, k) == k \in DOMAIN d.m

\* d.get(k, default), for a dict d
Get(d, k, default) == IF HasKey(d, k) THEN d.m[k] ELSE default

\* d[k] = v, for a dict d
Put(d, k, v) == PDict([j \in (DOMAIN d.m) \cup {k} |-> IF j = k THEN v ELSE d.m[j]])

\* bool(v): Python truthiness
Truthy(v) ==
    CASE v.t = "str" -> v.s # ""
      [] v.t = "int" -> v.n # 0
      [] v.t = "bool" -> v.n = 1
      [] v.t = "none" -> FALSE
      [] OTHER -> DOMAIN v.m # {}

RECURSIVE DigitsToInt(_, _)
\* int(s) for a string of digits, acc being the value read so far.
DigitsToInt(s, acc) ==
    IF s = "" THEN acc
    ELSE DigitsToInt(From(s, 2), acc * 10 + (CHOOSE d \in 0..9 : ToString(d) = Ch(s, 1)))

\* The end (exclusive) of the run of digits that starts at i.
DigitsEnd(s, i) ==
    LET stops == {k \in i..Len(s) : Ch(s, k) \notin Digits}
    IN  IF stops = {} THEN Len(s) + 1 ELSE Min(stops)

\* The end (exclusive) of the run of \w characters that starts at i.
WordEnd(s, i) ==
    LET stops == {k \in i..Len(s) : ~IsWord(Ch(s, k))}
    IN  IF stops = {} THEN Len(s) + 1 ELSE Min(stops)

\* The first index >= i that holds no white space.
SkipWs(s, i) ==
    LET stops == {k \in i..Len(s) : ~IsSpace(Ch(s, k))}
    IN  IF stops = {} THEN Len(s) + 1 ELSE Min(stops)

(***************************************************************************)
(* json.loads and json.dumps (the standard library, as src/parser.py and   *)
(* src/agent.py call them).  A parse step returns [ok, v, p]: whether a    *)
(* value was read, the value, and the index after it.  Numbers are         *)
(* integers; string escapes are \", \\ and \n.                             *)
(***************************************************************************)
JFail == [ok |-> FALSE, v |-> PNone, p |-> 0]

JOk(v, p) == [ok |-> TRUE, v |-> v, p |-> p]

RECURSIVE JsonString(_, _, _)
\* The string literal whose opening quote is before index i, acc read so far.
JsonString(s, i, acc) ==
    IF i > Len(s) THEN JFail
    ELSE IF Ch(s, i) = "\"" THEN JOk(PStr(acc), i + 1)
    ELSE IF Ch(s, i) = "\\"
         THEN IF i + 1 > Len(s) THEN JFail
              ELSE IF Ch(s, i + 1) = "n" THEN JsonString(s, i + 2, acc \o "\n")
              ELSE IF Ch(s, i + 1) \in {"\"", "\\"} THEN JsonString(s, i + 2, acc \o Ch(s, i + 1))
              ELSE JFail
    ELSE IF Ch(s, i) \in {"\n", "\t", "\r"} THEN JFail
    ELSE JsonString(s, i + 1, acc \o Ch(s, i))

JsonNumber(s, i) ==
    LET neg == Ch(s, i) = "-"
        d   == IF neg THEN i + 1 ELSE i
        e   == DigitsEnd(s, d)
    IN  IF e = d \/ (e > d + 1 /\ Ch(s, d) = "0") THEN JFail
        ELSE JOk(PInt((IF neg THEN -1 ELSE 1) * DigitsToInt(SubSeq(s, d, e - 1), 0)), e)

RECURSIVE JsonValue(_, _)
RECURSIVE JsonElements(_, _, _)
RECURSIVE JsonMembers(_, _, _)
\* The JSON value that starts at index i (after white space).
JsonValue(s, i0) ==
    LET i == SkipWs(s, i0)
    IN  IF i > Len(s) THEN JFail
        ELSE IF Ch(s, i) = "\"" THEN JsonString(s, i + 1, "")
        ELSE IF Ch(s, i) = "{"
             THEN IF Ch(s, SkipWs(s, i + 1)) = "}" THEN JOk(EmptyDict, SkipWs(s, i + 1) + 1)
                  ELSE JsonMembers(s, i + 1, EmptyDict)
        ELSE IF Ch(s, i) = "["
             THEN IF Ch(s, SkipWs(s, i + 1)) = "]" THEN JOk(PList(<<>>), SkipWs(s, i + 1) + 1)
                  ELSE JsonElements(s, i + 1, <<>>)
        ELSE IF StartsAt(s, "true", i) THEN JOk(PBool(TRUE), i + 4)
        ELSE IF StartsAt(s, "false", i) THEN JOk(PBool(FALSE), i + 5)
        ELSE IF StartsAt(s, "null", i) THEN JOk(PNone, i + 4)
        ELSE JsonNumber(s, i)

\* The elements of an array from index i on, acc being those read so far.
JsonElements(s, i, acc) ==
    LET e == JsonValue(s, i)
        j == SkipWs(s, e.p)
    IN  IF ~e.ok THEN JFail
        ELSE IF Ch(s, j) = "," THEN JsonElements(s, j + 1, Append(acc, e.v))
        ELSE IF Ch(s, j) = "]" THEN JOk(PList(Append(acc, e.v)), j + 1)
        ELSE JFail

\* The members of an object from index i on, acc being the dict read so far.
JsonMembers(s, i0, acc) ==
    LET i == SkipWs(s, i0)
        k == IF Ch(s, i) = "\"" THEN JsonString(s, i + 1, "") ELSE JFail
        c == SkipWs(s, k.p)
        e == JsonValue(s, c + 1)
        j == SkipWs(s, e.p)
    IN  IF ~k.ok \/ Ch(s, c) # ":" THEN JFail
        ELSE IF ~e.ok THEN JFail
        ELSE IF Ch(s, j) = "," THEN JsonMembers(s, j + 1, Put(acc, k.v.s, e.v))
        ELSE IF Ch(s, j) = "}" THEN JOk(Put(acc, k.v.s, e.v), j + 1)
        ELSE JFail

\* json.loads(s): [ok, v]; ok is FALSE where json.loads raises JSONDecodeError.
JsonLoads(s) ==
    LET r == JsonValue(s, 1)
    IN  IF r.ok /\ SkipWs(s, r.p) > Len(s) THEN r ELSE JFail

RECURSIVE JsonEscape(_)
\* The body of the JSON string literal that json.dumps writes for s.
JsonEscape(s) ==
    IF s = "" THEN ""
    ELSE (CASE Ch(s, 1) = "\"" -> "\\\""
            [] Ch(s, 1) = "\\" -> "\\\\"
            [] Ch(s, 1) = "\n" -> "\\n"
            [] OTHER -> Ch(s, 1)) \o JsonEscape(From(s, 2))

\* json.dumps(v) for a str, int, bool or None v.
JsonDumpsScalar(v) ==
    CASE v.t = "str" -> "\"" \o JsonEscape(v.s) \o "\""
      [] v.t = "int" -> ToString(v.n)
      [] v.t = "bool" -> (IF v.n = 1 THEN "true" ELSE "false")
      [] OTHER -> "null"

\* json.dumps({"tool": tool_name, "result": result})
JsonDumpsToolMessage(tool_name, result) ==
    "{\"tool\": " \o JsonDumpsScalar(tool_name) \o ", \"result\": " \o JsonDumpsScalar(PStr(result)) \o "}"

(***************************************************************************)
(* parse_json (src/parser.py).  The result is a Python value; PNone is the *)
(* None the function returns when every strategy fails (and the null that  *)
(* json.loads reads).                                                      *)
(***************************************************************************)
RECURSIVE BraceExtract(_, _, _)
\* The while loop of strategy 2: text[i:last_brace + 1] for the last brace, then inward.
BraceExtract(text, i, last_brace) ==
    IF last_brace <= i THEN JFail
    ELSE LET r == JsonLoads(SubSeq(text, i, last_brace))
         IN  IF r.ok THEN r ELSE BraceExtract(text, i, RFind(text, "}", i, last_brace))

RECURSIVE SplitOn(_, _, _, _)
\* s.split(c) from index i on, cur being the piece read so far.
SplitOn(s, c, i, cur) ==
    IF i > Len(s) THEN <<cur>>
    ELSE IF Ch(s, i) = c THEN <<cur>> \o SplitOn(s, c, i + 1, "")
    ELSE SplitOn(s, c, i + 1, cur \o Ch(s, i))

RECURSIVE StripChars(_, _)
\* s.strip(chars) for a set of characters
StripChars(s, chars) ==
    IF s # "" /\ Ch(s, 1) \in chars THEN StripChars(From(s, 2), chars)
    ELSE IF s # "" /\ Ch(s, Len(s)) \in chars THEN StripChars(SubSeq(s, 1, Len(s) - 1), chars)
    ELSE s

\* The end (exclusive) of a match of  "key"\s*:\s*  that starts at i, 0 when there is none.
KeyColonEnd(text, key, i) ==
    LET q == "\"" \o key \o "\""
        c == SkipWs(text, i + Len(q))
    IN  IF StartsAt(text, q, i) /\ Ch(text, c) = ":" THEN SkipWs(text, c + 1) ELSE 0

\* re.search(r'"relevant"\s*:\s*(true|false)', text, re.IGNORECASE): [ok, relevant]
RelevantMatch(text) ==
    LET low  == Lower(text)
        hits == {i \in 1..Len(low) :
                    /\ KeyColonEnd(low, "relevant", i) # 0
                    /\ \/ StartsAt(low, "true", KeyColonEnd(low, "relevant", i))
                       \/ StartsAt(low, "false", KeyColonEnd(low, "relevant", i))}
    IN  IF hits = {} THEN [ok |-> FALSE, relevant |-> FALSE]
        ELSE [ok |-> TRUE, relevant |-> StartsAt(low, "true", KeyColonEnd(low, "relevant", Min(hits)))]

\* re.search(r'"facts"\s*:\s*\[([^\]]*)\]', text) and the list built from its group
FactsMatch(text) ==
    LET hits == {i \in 1..Len(text) :
                    /\ KeyColonEnd(text, "facts", i) # 0
                    /\ Ch(text, KeyColonEnd(text, "facts", i)) = "["
                    /\ Find(text, "]", KeyColonEnd(text, "facts", i) + 1) # 0}
        open == KeyColonEnd(text, "facts", Min(hits))
        pieces == SplitOn(Slice(text, open + 1, Find(text, "]", open + 1)), ",", 1, "")
        kept == SelectSeq(pieces, LAMBDA f : Strip(f) # "")
    IN  IF hits = {} THEN <<>>
        ELSE [k \in 1..Len(kept) |-> PStr(StripChars(Strip(kept[k]), {"\""}))]

\* The outermost braces: text[start:end + 1] for the first "{" and the last "}".
Braces(text, start) ==
    IF start = 0 THEN JFail
    ELSE BraceExtract(text, start, RFind(text, "}", start, Len(text) + 1))

\* The regex fallback, rel being the match of "relevant".
RegexFallback(text, rel) ==
    IF rel.ok THEN PDict([k \in {"relevant", "facts"} |->
                             IF k = "relevant" THEN PBool(rel.relevant)
                             ELSE PList(FactsMatch(text))])
    ELSE PNone

\* The three attempts in order: direct, then braces, then the regex fallback.
FirstParsed(text, direct, braces) ==
    IF direct.ok THEN direct.v
    ELSE IF braces.ok THEN braces.v
    ELSE RegexFallback(text, RelevantMatch(text))

parse_json(text) ==
    FirstParsed(text, JsonLoads(Strip(text)), Braces(text, Find(text, "{", 1)))

(***************************************************************************)
(* The tool-call extractor (src/agent.py).  A parse result is a record     *)
(* [kind, name, params, format]: kind "call" with the call's name and      *)
(* params, "none" for None, "raise" where the code raises.                 *)
(***************************************************************************)
NoCall == [kind |-> "none", name |-> PNone, params |-> PNone, format |-> "none"]

Raises(what) == [kind |-> "raise", name |-> PNone, params |-> PNone, format |-> what]

Call(name, params, format) == [kind |-> "call", name |-> name, params |-> params, format |-> format]

_KNOWN_TOOLS == {"semantic_search", "count_files", "list_files", "grep_files",
                 "file_metadata", "directory_tree", "folder_stats", "disk_usage", "respond"}

\* A match of (".*?"|'.*?'|\d+|None|True|False) at index v: its end (exclusive), 0 when none.
ParamValueEnd(ps, v) ==
    LET quoted(q) == LET e == Find(ps, q, v + 1)
                     IN  IF Ch(ps, v) = q /\ e # 0 /\ ~Contains(Slice(ps, v + 1, e), "\n")
                         THEN e + 1 ELSE 0
    IN  IF quoted("\"") # 0 THEN quoted("\"")
        ELSE IF quoted("'") # 0 THEN quoted("'")
        ELSE IF Ch(ps, v) \in Digits THEN DigitsEnd(ps, v)
        ELSE IF StartsAt(ps, "None", v) \/ StartsAt(ps, "True", v) THEN v + 4
        ELSE IF StartsAt(ps, "False", v) THEN v + 5
        ELSE 0

\* A match of (\w+)\s*=\s*(value) at index k: [ok, key, value, end].
ParamMatchAt(ps, k) ==
    LET e  == WordEnd(ps, k)
        eq == SkipWs(ps, e)
        v  == SkipWs(ps, eq + 1)
        ve == ParamValueEnd(ps, v)
    IN  IF e > k /\ Ch(ps, eq) = "=" /\ ve # 0
        THEN [ok |-> TRUE, key |-> Slice(ps, k, e), value |-> Slice(ps, v, ve), end |-> ve]
        ELSE [ok |-> FALSE, key |-> "", value |-> "", end |-> 0]

\* value.strip("\"'") and the conversions to None, int and bool
ParamValue(raw) ==
    LET value == StripChars(raw, {"\"", "'"})
    IN  IF value = "None" THEN PNone
        ELSE IF value # "" /\ DigitsEnd(value, 1) = Len(value) + 1 THEN PInt(DigitsToInt(value, 0))
        ELSE IF value \in {"True", "False"} THEN PBool(value = "True")
        ELSE PStr(value)

RECURSIVE NativeParams(_, _, _)
\* The re.finditer loop over params_str from index i on, acc being params so far.
NativeParams(ps, i, acc) ==
    LET hits == {k \in i..Len(ps) : ParamMatchAt(ps, k).ok}
    IN  IF hits = {} THEN acc
        ELSE LET m == ParamMatchAt(ps, Min(hits))
             IN  NativeParams(ps, m.end, Put(acc, m.key, ParamValue(m.value)))

_parse_native_tool_call(raw, format) ==
    LET s == Strip(raw)
        e == WordEnd(s, 1)
        r == RFind(s, ")", e + 1, Len(s) + 1)
    IN  IF e > 1 /\ Ch(s, e) = "(" /\ r # 0
        THEN Call(PStr(Slice(s, 1, e)), NativeParams(Slice(s, e + 1, r), 1, EmptyDict), format)
        ELSE NoCall

TOOL_CALL_START == "<|tool_call_start|>"

TOOL_CALL_END == "<|tool_call_end|>"

\* group(1) of <\|tool_call_start\|>\[?(.*?)\]?<\|tool_call_end\|> : [ok, text]
NativeSpan(response) ==
    LET i  == Find(response, TOOL_CALL_START, 1)
        p  == i + Len(TOOL_CALL_START)
        p1 == IF Ch(response, p) = "[" THEN p + 1 ELSE p
        k  == Find(response, TOOL_CALL_END, p1)
        e  == IF k - 1 >= p1 /\ Ch(response, k - 1) = "]" THEN k - 1 ELSE k
    IN  IF i = 0 \/ k = 0 THEN [ok |-> FALSE, text |-> ""]
        ELSE [ok |-> TRUE, text |-> Slice(response, p1, e)]

\* group(1) of \[(\w+\(.*?\))\] : [ok, text]
BracketSpan(response) ==
    LET good(i) == /\ Ch(response, i) = "["
                   /\ WordEnd(response, i + 1) > i + 1
                   /\ Ch(response, WordEnd(response, i + 1)) = "("
                   /\ Find(response, ")]", WordEnd(response, i + 1) + 1) # 0
        hits == {i \in 1..Len(response) : good(i)}
        i0   == Min(hits)
    IN  IF hits = {} THEN [ok |-> FALSE, text |-> ""]
        ELSE [ok |-> TRUE,
              text |-> Slice(response, i0 + 1, Find(response, ")]", WordEnd(response, i0 + 1) + 1) + 1)]

\* group(0) of (known tool)\(([^)]*)\) : [ok, text]
BareSpan(response) ==
    LET name(i) == {t \in _KNOWN_TOOLS : StartsAt(response, t \o "(", i)}
        good(i) == name(i) # {} /\ Find(response, ")", i) # 0
        hits == {i \in 1..Len(response) : good(i)}
        i0   == Min(hits)
    IN  IF hits = {} THEN [ok |-> FALSE, text |-> ""]
        ELSE [ok |-> TRUE, text |-> Slice(response, i0, Find(response, ")", i0) + 1)]

\* The JSON strategy:  if parsed and "name" in parsed: return {...}
JsonCall(parsed) ==
    IF ~Truthy(parsed) THEN NoCall
    ELSE CASE parsed.t \in {"int", "bool"} -> Raises("TypeError")
           [] parsed.t = "str" ->
                IF Contains(parsed.s, "name") THEN Raises("TypeError") ELSE NoCall
           [] parsed.t = "list" ->
                IF \E k \in DOMAIN parsed.m : parsed.m[k].t = "str" /\ parsed.m[k].s = "name"
                THEN Raises("TypeError") ELSE NoCall
           [] OTHER ->
                IF HasKey(parsed, "name")
                THEN Call(parsed.m["name"],
                          Get(parsed, "params", Get(parsed, "parameters", EmptyDict)), "json")
                ELSE NoCall

\* if match: result = self._parse_native_tool_call(match.group(...))
SpanCall(span, format) ==
    IF span.ok THEN _parse_native_tool_call(span.text, format) ELSE NoCall

\* FirstCall trying the bare call of a known tool before the other formats.
FirstCallBareFirst(native, json, bracket, bare) ==
    IF bare.kind = "call" THEN bare
    ELSE IF native.kind = "call" THEN native
    ELSE IF json.kind # "none" THEN json
    ELSE bracket

\* The strategies in the order the code tries them.
FirstCall(native, json, bracket, bare) ==
    IF native.kind = "call" THEN native
    ELSE IF json.kind # "none" THEN json
    ELSE IF bracket.kind = "call" THEN bracket
    ELSE bare

_parse_tool_call(response) ==
    FirstCall(SpanCall(NativeSpan(response), "native"),
              JsonCall(parse_json(response)),
              SpanCall(BracketSpan(response), "bracket"),
              SpanCall(BareSpan(response), "bare"))

(***************************************************************************)
(* The keyword extractor (src/searcher.py).                                *)
(***************************************************************************)
_STOPWORDS == {"a", "an", "the", "is", "was", "are", "were", "be", "been",
               "do", "does", "did", "has", "have", "had", "it", "its",
               "of", "for", "in", "on", "to", "at", "by", "my", "me",
               "what", "when", "where", "how", "who", "which", "any",
               "and", "or", "not", "no", "but", "if", "so", "can",
               "all", "each", "every", "this", "that", "there", "here",
               "from", "with", "about", "into", "over", "after", "before",
               "show", "find", "get", "tell", "give", "list",
               "pdf", "pdfs", "txt", "csv", "doc", "docx", "xls", "xlsx",
               "png", "jpg", "jpeg", "json", "xml", "file", "files",
               "document", "documents"}

extract_keywords(query) ==
    LET words == Split(Remove(Remove(Remove(Lower(query), "?"), "!"), "."))
    IN  SelectSeq(words, LAMBDA w : w \notin _STOPWORDS /\ Len(w) > 2)

(***************************************************************************)
(* The fallback router (src/router.py).  route returns [tool, params].     *)
(***************************************************************************)
\* The items of _EXT_MAP, in insertion order.
_EXT_MAP == << <<"pdf", "pdf">>, <<"pdfs", "pdf">>, <<"txt", "txt">>, <<"text", "txt">>,
               <<"py", "py">>, <<"python", "py">>, <<"md", "md">>, <<"markdown", "md">>,
               <<"csv", "csv">>, <<"json", "json">>, <<"xml", "xml">>, <<"doc", "doc">>,
               <<"docx", "docx">>, <<"xls", "xls">>, <<"xlsx", "xlsx">>, <<"png", "png">>,
               <<"jpg", "jpg">>, <<"jpeg", "jpeg">> >>

\* The extension, or PNone.
_detect_extension(query) ==
    LET words == Range(Split(Lower(query)))
        hits  == {k \in 1..Len(_EXT_MAP) : _EXT_MAP[k][1] \in words}
    IN  IF hits = {} THEN PNone ELSE PStr(_EXT_MAP[Min(hits)][2])

\* The end (exclusive) of the run of [\w-] characters that starts at i.
NameEnd(s, i) ==
    LET stops == {k \in i..Len(s) : ~(IsWord(Ch(s, k)) \/ Ch(s, k) = "-")}
    IN  IF stops = {} THEN Len(s) + 1 ELSE Min(stops)

\* re.search(r'[\w-]+\.\w{2,4}', query): the match, "" when there is none.
FileNameMatch(query) ==
    LET ext(i)  == Min({WordEnd(query, NameEnd(query, i) + 1), NameEnd(query, i) + 5})
        good(i) == /\ NameEnd(query, i) > i
                   /\ Ch(query, NameEnd(query, i)) = "."
                   /\ ext(i) >= NameEnd(query, i) + 3
        hits == {i \in 1..Len(query) : good(i)}
    IN  IF hits = {} THEN "" ELSE Slice(query, Min(hits), ext(Min(hits)))

\* re.search(r'["\']([^"\']+)["\']', query): group(1), "" when there is none.
QuotedMatch(query) ==
    LET q(i)    == Ch(query, i) \in {"\"", "'"}
        close(i) == Min({k \in (i + 1)..(Len(query) + 1) : k > Len(query) \/ q(k)})
        good(i) == q(i) /\ close(i) <= Len(query) /\ close(i) > i + 1
        hits == {i \in 1..Len(query) : good(i)}
    IN  IF hits = {} THEN "" ELSE Slice(query, Min(hits) + 1, close(Min(hits)))

\* The name hint, or PNone.
_extract_name_hint(query) ==
    LET stop  == {"the", "a", "an", "is", "was", "of", "for", "my", "what", "when", "how",
                  "file", "size"}
        nouns == SelectSeq(Split(Remove(Lower(query), "?")),
                           LAMBDA w : w \notin stop /\ Len(w) > 2)
    IN  IF FileNameMatch(query) # "" THEN PStr(FileNameMatch(query))
        ELSE IF QuotedMatch(query) # "" THEN PStr(QuotedMatch(query))
        ELSE IF nouns # <<>> THEN PStr(nouns[Len(nouns)])
        ELSE PNone

\* Routed dropping the parameters the router chose.
RoutedBare(tool, params) == [tool |-> tool, params |-> EmptyDict]

Routed(tool, params) == [tool |-> tool, params |-> params]

\* A dict holding the keys of pairs, a sequence of <<key, value>>.
DictOf(pairs) ==
    PDict([k \in {pairs[i][1] : i \in 1..Len(pairs)} |->
              pairs[Max({i \in 1..Len(pairs) : pairs[i][1] = k})][2]])

\* intent is a Python value: a str, or PNone.
route(query, intent) ==
    LET q == Lower(query)
        size_keywords  == {"space", "biggest", "largest", "storage", "heavy", "disk usage"}
        count_keywords == {"most", "least", "fewest"}
        is_metadata    == (intent.t = "str" /\ intent.s = "metadata") \/ ContainsAny(q, size_keywords)
        is_count_query == ContainsAny(q, count_keywords)
        mentions_files   == ContainsAny(q, {"file", "files", "document", "documents"})
        mentions_folders == ContainsAny(q, {"folder", "folders", "directory", "directories"})
        ext   == _detect_extension(q)
        order == IF ContainsAny(q, {"least", "fewest"}) THEN "asc" ELSE "desc"
        with_ext(pairs) == IF Truthy(ext) THEN Put(DictOf(pairs), "extension", ext) ELSE DictOf(pairs)
    IN  IF is_metadata \/ is_count_query
        THEN IF ContainsAny(q, {"total", "usage", "overview", "summary"})
             THEN Routed("disk_usage", EmptyDict)
             ELSE IF is_count_query /\ mentions_folders
             THEN Routed("folder_stats",
                         with_ext(<< <<"sort_by", PStr("count")>>, <<"order", PStr(order)>> >>))
             ELSE IF mentions_files /\ ~mentions_folders
             THEN Routed("list_files", with_ext(<< <<"sort_by", PStr("size")>> >>))
             ELSE Routed("folder_stats", DictOf(<< <<"sort_by", PStr("size")>> >>))
        ELSE IF ContainsAny(q, {"folder", "tree", "directory", "structure"})
        THEN Routed("directory_tree", DictOf(<< <<"max_depth", PInt(2)>> >>))
        ELSE IF ContainsAny(q, {"file size", "how big", "how large", "how old", "when was",
                                "modified", "created"})
        THEN Routed("file_metadata", DictOf(<< <<"name_hint", _extract_name_hint(q)>> >>))
        ELSE Routed("semantic_search", DictOf(<< <<"query", PStr(query)>> >>))

(***************************************************************************)
(* The toolbox (src/toolbox.py) over a data directory.  A directory is a   *)
(* record [name, files]: the name of the root and its visible files, in    *)
(* the order the file system lists them; a file is [name, size, mtime,     *)
(* age], mtime being the formatted modification time and age its rank      *)
(* (larger is more recent).  The directories of the model hold no          *)
(* sub-folders.  What a tool call returns is a record [kind, text,         *)
(* sources]: kind "str" for a string, "pair" for a (text, sources) tuple,  *)
(* "raise" for an exception (text is its type).                            *)
(***************************************************************************)
RetStr(text) == [kind |-> "str", text |-> text, sources |-> <<>>]

RetPair(text, sources) == [kind |-> "pair", text |-> text, sources |-> sources]

RetRaise(exc) == [kind |-> "raise", text |-> exc, sources |-> <<>>]

\* No return yet: the call is still running, or was never made.
NoReturn == [kind |-> "none", text |-> "", sources |-> <<>>]

\* The printable ASCII characters in code-point order (without the grave accent).
Ascii == " !\"#$%&'()*+,-./0123456789:;<=>?@ABCDEFGHIJKLMNOPQRSTUVWXYZ[\\]^_abcdefghijklmnopqrstuvwxyz{|}~"

RECURSIVE StrLess(_, _)
\* a < b for two strings
StrLess(a, b) ==
    IF b = "" THEN FALSE
    ELSE IF a = "" THEN TRUE
    ELSE IF Ch(a, 1) = Ch(b, 1) THEN StrLess(From(a, 2), From(b, 2))
    ELSE Find(Ascii, Ch(a, 1), 1) < Find(Ascii, Ch(b, 1), 1)

\* sorted(seq) under the strict order Before (stable, as list.sort is).
SortBy(seq, Before) ==
    LET ahead(i) == {j \in 1..Len(seq) :
                        \/ Before[seq[j], seq[i]]
                        \/ j < i /\ ~Before[seq[i], seq[j]]}
    IN  [p \in 1..Len(seq) |-> seq[CHOOSE i \in 1..Len(seq) : Cardinality(ahead(i)) = p - 1]]

\* f"{v}" for a str, int, bool or None v
Format(v) ==
    CASE v.t = "str" -> v.s
      [] v.t = "int" -> ToString(v.n)
      [] v.t = "bool" -> (IF v.n = 1 THEN "True" ELSE "False")
      [] OTHER -> "None"

\* f"{num / den:.1f}" for naturals (halves round up)
Format1(num, den) ==
    LET tenths == (num * 20 + den) \div (2 * den)
    IN  ToString(tenths \div 10) \o "." \o ToString(tenths % 10)

_format_size(size_bytes) ==
    IF size_bytes < 1024 THEN ToString(size_bytes) \o " B"
    ELSE IF size_bytes < 1024 * 1024 THEN Format1(size_bytes, 1024) \o " KB"
    ELSE Format1(size_bytes, 1024 * 1024) \o " MB"

RECURSIVE SumSizes(_)
SumSizes(files) == IF files = <<>> THEN 0 ELSE files[1].size + SumSizes(Tail(files))

\* seq[:limit] for a Python value limit that is an int >= 0 or None
Prefix(seq, limit) ==
    IF limit.t = "none" THEN seq ELSE SubSeq(seq, 1, Min({limit.n, Len(seq)}))

\* Whether seq[:limit] raises TypeError.
BadLimit(limit) == limit.t \notin {"int", "bool", "none"}

\* ToolBox._list_files(ext_filter) without a time filter
_list_files(dir, ext_filter) ==
    IF Truthy(ext_filter)
    THEN SelectSeq(dir.files, LAMBDA f :
             LET suffix == "." \o Format(ext_filter)
             IN  Len(f.name) >= Len(suffix) /\ StartsAt(f.name, suffix, Len(f.name) - Len(suffix) + 1))
    ELSE dir.files

count_files(dir, ext_filter) ==
    RetStr("Found " \o ToString(Len(_list_files(dir, ext_filter))) \o " "
           \o (IF Truthy(ext_filter) THEN "." \o Format(ext_filter) \o " " ELSE "") \o "files.")

list_recent_files(dir, ext_filter, limit, sort_by) ==
    LET files  == _list_files(dir, ext_filter)
        by     == Format(sort_by)
        sorted == IF by = "size" THEN SortBy(files, [f, g \in Range(files) |-> f.size > g.size])
                  ELSE IF by = "name" THEN SortBy(files, [f, g \in Range(files) |-> StrLess(Lower(f.name), Lower(g.name))])
                  ELSE SortBy(files, [f, g \in Range(files) |-> f.age > g.age])
        shown  == Prefix(sorted, limit)
        lines  == [k \in 1..Len(shown) |->
                      IF by = "size" THEN "  - " \o shown[k].name \o " (" \o _format_size(shown[k].size) \o ")"
                      ELSE "  - " \o shown[k].name \o " (modified: " \o shown[k].mtime \o ")"]
        header == IF by = "name" THEN "Files" ELSE "Files (sorted by " \o by \o "):"
    IN  IF files = <<>> THEN RetStr("No matching files found.")
        ELSE IF BadLimit(limit) THEN RetRaise("TypeError")
        ELSE RetStr(header \o "\n" \o Join("\n", lines))

get_file_metadata(dir, name_hint) ==
    LET files == IF Truthy(name_hint)
                 THEN SelectSeq(dir.files, LAMBDA f : Contains(Lower(f.name), Lower(name_hint.s)))
                 ELSE dir.files
        shown == SubSeq(files, 1, Min({10, Len(files)}))
        lines == [k \in 1..Len(shown) |->
                     "  - " \o shown[k].name \o ": " \o Format1(shown[k].size, 1024)
                     \o "KB, modified " \o shown[k].mtime]
    IN  IF Truthy(name_hint) /\ name_hint.t # "str" /\ dir.files # <<>> THEN RetRaise("AttributeError")
        ELSE IF files = <<>> THEN RetStr("No matching files found.")
        ELSE RetStr("File metadata:\n" \o Join("\n", lines))

\* The connectors |-- and +-- stand for the box-drawing ones of the code, of the same length.
tree(dir) ==
    LET entries == SortBy(dir.files, [f, g \in Range(dir.files) |-> StrLess(Lower(f.name), Lower(g.name))])
        lines   == [k \in 1..Len(entries) |->
                       (IF k = Len(entries) THEN "+-- " ELSE "|-- ") \o entries[k].name]
    IN  RetStr(Join("\n", <<dir.name \o "/">> \o lines))

grep(dir, pattern) ==
    LET matches == SelectSeq(dir.files, LAMBDA f : Contains(Lower(f.name), Lower(pattern.s)))
        shown   == SubSeq(matches, 1, Min({20, Len(matches)}))
        lines   == [k \in 1..Len(shown) |-> "  - " \o shown[k].name]
        count   == Len(matches)
        header  == "Found " \o ToString(count) \o " file" \o (IF count # 1 THEN "s" ELSE "")
                   \o " matching '" \o pattern.s \o "':"
                   \o (IF count > 20 THEN " (showing first 20)" ELSE "")
    IN  IF pattern.t # "str" /\ dir.files # <<>> THEN RetRaise("AttributeError")
        ELSE IF pattern.t # "str" \/ matches = <<>>
        THEN RetStr("No files matching '" \o Format(pattern) \o "'.")
        ELSE RetStr(header \o "\n" \o Join("\n", lines))

\* Every file of the model's directories lies in the root folder.
folder_stats(dir, sort_by, limit) ==
    LET files  == dir.files
        ranked == Prefix(<<"(root)">>, limit)
        lines  == <<"Folder sizes (sorted by " \o Format(sort_by) \o "):">>
                  \o [k \in 1..Len(ranked) |->
                         "  " \o ranked[k] \o "/: " \o _format_size(SumSizes(files)) \o ", "
                         \o ToString(Len(files)) \o " files"]
                  \o <<"Total: " \o _format_size(SumSizes(files)) \o " across "
                       \o ToString(Len(files)) \o " files">>
    IN  IF files = <<>> THEN RetStr("No files found.")
        ELSE IF BadLimit(limit) THEN RetRaise("TypeError")
        ELSE RetStr(Join("\n", lines))

\* f.suffix.lower() or "(no extension)"
Suffix(name) ==
    LET dot == RFind(name, ".", 2, Len(name) + 1)
    IN  IF dot = 0 \/ dot = Len(name) THEN "(no extension)" ELSE Lower(From(name, dot))

disk_usage(dir) ==
    LET files == dir.files
        first(k) == \A j \in 1..(k - 1) : Suffix(files[j].name) # Suffix(files[k].name)
        exts  == SelectSeq([k \in 1..Len(files) |-> k], first)
        of(k) == SelectSeq(files, LAMBDA f : Suffix(f.name) = Suffix(files[k].name))
        ranked == SortBy(exts, [a, b \in Range(exts) |-> SumSizes(of(a)) > SumSizes(of(b))])
        shown  == SubSeq(ranked, 1, Min({10, Len(ranked)}))
        lines  == <<"Disk usage summary:",
                    "  Total: " \o _format_size(SumSizes(files)) \o " across "
                        \o ToString(Len(files)) \o " files",
                    "  Average file size: " \o _format_size(SumSizes(files) \div Len(files)),
                    "  By type:">>
                  \o [k \in 1..Len(shown) |->
                         "    " \o Suffix(files[shown[k]].name) \o ": "
                         \o _format_size(SumSizes(of(shown[k]))) \o " ("
                         \o ToString(Len(of(shown[k]))) \o " files)"]
    IN  IF files = <<>> THEN RetStr("No files found.") ELSE RetStr(Join("\n", lines))

(***************************************************************************)
(* The tool registry (src/tools.py).  found is what the searcher's         *)
(* search_and_extract returns when the call reaches it.                    *)
(***************************************************************************)
Handlers == {"semantic_search", "count_files", "list_files", "file_metadata", "grep_files",
             "directory_tree", "folder_stats", "disk_usage"}

_semantic_search(params, found) ==
    IF Get(params, "top_k", PInt(5)).t \notin {"int", "bool"} THEN RetRaise("TypeError")
    ELSE found

execute(dir, tool_name, params, found) ==
    IF tool_name.t \in {"dict", "list"} THEN RetRaise("TypeError")
    ELSE IF tool_name.t # "str" \/ tool_name.s \notin Handlers
    THEN RetStr("Unknown tool: " \o Format(tool_name))
    ELSE IF params.t # "dict" THEN RetRaise("AttributeError")
    ELSE CASE tool_name.s = "semantic_search" -> _semantic_search(params, found)
           [] tool_name.s = "count_files" -> count_files(dir, Get(params, "extension", PNone))
           [] tool_name.s = "list_files" ->
                list_recent_files(dir, Get(params, "extension", PNone),
                                  Get(params, "limit", PInt(10)), Get(params, "sort_by", PStr("date")))
           [] tool_name.s = "file_metadata" -> get_file_metadata(dir, Get(params, "name_hint", PNone))
           [] tool_name.s = "grep_files" -> grep(dir, Get(params, "pattern", PStr("")))
           [] tool_name.s = "directory_tree" -> tree(dir)
           [] tool_name.s = "folder_stats" ->
                folder_stats(dir, Get(params, "sort_by", PStr("size")), Get(params, "limit", PInt(10)))
           [] OTHER -> disk_usage(dir)

(***************************************************************************)
(* The query rewriter (src/rewriter.py).  rewrite returns [kind, intent,   *)
(* search_query, resolved_query]: kind "ok" with the three fields (Python  *)
(* values), or "raise".  raw is the text the model generated.              *)
(***************************************************************************)
_VALID_INTENTS == {"factual", "count", "list", "compare", "summarize", "metadata"}

Rewritten(intent, search_query, resolved_query) ==
    [kind |-> "ok", intent |-> intent, search_query |-> search_query,
     resolved_query |-> resolved_query]

RewriteRaises(exc) ==
    [kind |-> exc, intent |-> PNone, search_query |-> PNone, resolved_query |-> PNone]

\* What Agent.run holds in rewrite when no rewriter is configured.
NoRewrite == [kind |-> "none", intent |-> PNone, search_query |-> PNone, resolved_query |-> PNone]

\* _fallback leaving the two queries empty.
_fallbackBlank(query) == Rewritten(PStr("factual"), PStr(""), PStr(""))

_fallback(query) == Rewritten(PStr("factual"), PStr(query), PStr(query))

\* a or b without the right operand: a as it is.
OrFirst(a, b) == a

\* a or b
Or(a, b) == IF Truthy(a) THEN a ELSE b

\* rewrite after parsed = parse_json(raw)
RewriteParsed(query, parsed) ==
    LET intent == Get(parsed, "intent", PStr("factual"))
    IN  IF parsed.t = "none" THEN _fallback(query)
        ELSE IF parsed.t # "dict" THEN RewriteRaises("AttributeError")
        ELSE IF intent.t \in {"dict", "list"} THEN RewriteRaises("TypeError")
        ELSE Rewritten(IF intent.t = "str" /\ intent.s \in _VALID_INTENTS THEN intent ELSE PStr("factual"),
                       Or(Get(parsed, "search_query", PNone), PStr(query)),
                       Or(Get(parsed, "resolved_query", PNone), PStr(query)))

rewrite(query, raw) == RewriteParsed(query, parse_json(raw))

(***************************************************************************)
(* The follow-up heuristic (src/agent.py).  A message is [role, content],  *)
(* content a Python value.                                                 *)
(***************************************************************************)
Message(role, content) == [role |-> role, content |-> content]

_FOLLOWUP_STOPWORDS ==
    {"many", "much", "some", "any", "all", "most", "few", "more", "less",
     "have", "has", "had", "get", "got", "find", "show", "list", "give",
     "what", "which", "where", "when", "how", "why", "who",
     "there", "here", "this", "that", "these", "those",
     "file", "files", "folder", "folders", "directory", "directories", "structure",
     "count", "number", "total", "size",
     "can", "could", "would", "should", "will", "might",
     "about", "just", "only", "also", "even", "still",
     "aren't", "isn't", "don't", "doesn't", "didn't", "won't",
     "final", "question", "answer", "help", "please", "thanks",
     "test", "magic", "stuff", "thing", "things",
     "top", "biggest", "largest", "smallest", "heaviest", "least", "fewest",
     "image", "images", "picture", "pictures", "photo", "photos", "drawing", "drawings"}

RECURSIVE ResultText(_)
\* result_text: the lower-cased tool and assistant contents, each followed by a space.
ResultText(messages) ==
    IF messages = <<>> THEN ""
    ELSE (IF messages[1].role \in {"tool", "assistant"}
          THEN Lower(messages[1].content.s) \o " " ELSE "") \o ResultText(Tail(messages))

\* tools_used: the "tool" entries of the tool messages that hold a JSON object.
ToolsUsed(messages) ==
    LET loaded == [j \in 1..Len(messages) |->
                      IF messages[j].role = "tool" THEN JsonLoads(messages[j].content.s) ELSE JFail]
    IN  {loaded[k].v.m["tool"] :
            k \in {j \in 1..Len(messages) :
                      /\ loaded[j].ok
                      /\ loaded[j].v.t = "dict"
                      /\ HasKey(loaded[j].v, "tool")
                      /\ loaded[j].v.m["tool"].t \notin {"dict", "list"}}}

\* "name" in tools_used
Used(tools_used, name) == \E u \in tools_used : u.t = "str" /\ u.s = name

_covered(kw, text) ==
    \/ Contains(text, kw)
    \/ LET stem == RStripChar(kw, "s") IN Len(stem) >= 3 /\ Contains(text, stem)

\* The keywords of the query that the follow-up check looks for.
FollowupKeywords(query) ==
    SelectSeq(extract_keywords(query), LAMBDA kw : kw \notin _FOLLOWUP_STOPWORDS)

\* missing: the keywords that the conversation does not cover.
Missing(query, messages) ==
    LET result_text == ResultText(messages)
    IN  SelectSeq(FollowupKeywords(query), LAMBDA kw : ~_covered(kw, result_text))

\* The next tool call as a parse result, NoCall for None.
\* NextTool as a check that forgets which tools were used would do it.
NextToolForgetful(missing, tools_used) ==
    IF missing = <<>> THEN NoCall
    ELSE Call(PStr("semantic_search"), DictOf(<< <<"query", PStr(Join(" ", missing))>> >>), "followup")

\* NextTool with the two secondary tools tried in the other order.
NextToolGrepFirst(missing, tools_used) ==
    IF missing = <<>> THEN NoCall
    ELSE IF ~Used(tools_used, "grep_files")
    THEN Call(PStr("grep_files"), DictOf(<< <<"pattern", PStr(missing[1])>> >>), "followup")
    ELSE IF ~Used(tools_used, "semantic_search")
    THEN Call(PStr("semantic_search"), DictOf(<< <<"query", PStr(Join(" ", missing))>> >>), "followup")
    ELSE NoCall

\* The tool to try next, given the uncovered keywords and the tools used.
NextTool(missing, tools_used) ==
    IF missing = <<>> THEN NoCall
    ELSE IF ~Used(tools_used, "semantic_search")
    THEN Call(PStr("semantic_search"), DictOf(<< <<"query", PStr(Join(" ", missing))>> >>), "followup")
    ELSE IF ~Used(tools_used, "grep_files")
    THEN Call(PStr("grep_files"), DictOf(<< <<"pattern", PStr(missing[1])>> >>), "followup")
    ELSE NoCall

_needs_followup(query, messages) ==
    IF FollowupKeywords(query) = <<>> THEN NoCall
    ELSE NextTool(Missing(query, messages), ToolsUsed(messages))

(***************************************************************************)
(* The agent loop (src/agent.py, Agent.run).                               *)
(***************************************************************************)
MAX_STEPS == 5

\* The schema list is long; the model keeps the tool names of TOOL_SCHEMAS.
SYSTEM_PROMPT ==
    "You are a file assistant. Answer questions using ONLY tool results.\n"
    \o "NEVER answer from general knowledge. Always call a tool first.\n"
    \o "List of tools: [semantic_search, count_files, list_files, file_metadata, "
    \o "grep_files, directory_tree, folder_stats, disk_usage, respond]"

FINAL_INSTRUCTION == "Give a concise final answer based on the information above."

\* LastFour as history[:4] would do it: the oldest four messages.
FirstFour(h) == IF Len(h) <= 4 THEN h ELSE SubSeq(h, 1, 4)

\* history[-4:]
LastFour(h) == IF Len(h) <= 4 THEN h ELSE SubSeq(h, Len(h) - 3, Len(h))

\* Dedup as a set-based deduplication would do it: the distinct values in
\* sorted order instead of first-seen order.
DedupSorted(seq) ==
    LET s == Range(seq)
    IN  [p \in 1..Cardinality(s) |->
            CHOOSE x \in s : Cardinality({y \in s : StrLess(y, x)}) = p - 1]

RECURSIVE Dedup(_)
\* list(dict.fromkeys(seq)): each value once, at the place of its first appearance.
Dedup(seq) ==
    IF seq = <<>> THEN <<>>
    ELSE LET front == Dedup(SubSeq(seq, 1, Len(seq) - 1))
             last  == seq[Len(seq)]
         IN  IF last \in Range(front) THEN front ELSE Append(front, last)

\* result, sources = <what execute returned>
Unpacked(result, srcs) == [ok |-> TRUE, result |-> result, sources |-> srcs, exc |-> ""]

Unpack(ret) ==
    IF ret.kind = "raise" THEN [ok |-> FALSE, result |-> "", sources |-> <<>>, exc |-> ret.text]
    ELSE IF ret.kind = "pair" THEN Unpacked(ret.text, ret.sources)
    ELSE IF Len(ret.text) = 2 THEN Unpacked(Ch(ret.text, 1), <<Ch(ret.text, 2)>>)
    ELSE [ok |-> FALSE, result |-> "", sources |-> <<>>, exc |-> "ValueError"]

(***************************************************************************)
(* The environment of a run: the query, the conversation so far, the       *)
(* indexed directory, the searcher behind the registry, and what the model *)
(* may generate.                                                           *)
(***************************************************************************)
Queries == {"any macbook invoices", "what is the folder structure?", "how many PDF files?"}

\* The server appends a user and an assistant message per turn.
HistoryMessage(i) ==
    Message(IF i % 2 = 1 THEN "user" ELSE "assistant", PStr("turn " \o ToString(i)))

Histories == {[i \in 1..(2 * n) |-> HistoryMessage(i)] : n \in 0..MaxTurns}

File(name, size, mtime, age) == [name |-> name, size |-> size, mtime |-> mtime, age |-> age]

Roots == {[name |-> "a", files |-> <<>>],
          [name |-> "docs", files |-> <<File("budget.pdf", 2048, "2026-01-02 10:00", "1 day ago"),
                                        File("notes.txt", 10, "2026-01-01 09:00", "2 days ago")>>]}

\* The searcher behind the registry: the Searcher of src/searcher.py, or the
\* FakeSearcher of src/tests/test_tools.py built with a response and sources.
Searchers == {"Searcher", "FakeSearcher"}

\* What search_and_extract returns: text from Searcher, the pair the
\* FakeSearcher was built with.
SearcherReturns(kind) ==
    IF kind = "Searcher"
    THEN {RetStr("No matching content found."),
          RetStr("From budget.pdf:\n  - Total: 100")}
    ELSE {RetPair("From notes.txt:\n  - macbook receipt", <<"notes.txt", "budget.pdf", "notes.txt">>)}

Responses ==
    {"<|tool_call_start|>semantic_search(query=\"budget\")<|tool_call_end|>",
     "[directory_tree(max_depth=2)]",
     "<|tool_call_start|>respond(answer=\"You have 2 text files.\")<|tool_call_end|>",
     "respond()",
     "I found some results.",
     "<|tool_call_start|>magic_tool(query=\"hi\")<|tool_call_end|>",
     "42"}

RewriterOutputs ==
    {"{\"intent\": \"factual\", \"search_query\": \"macbook laptop\", \"resolved_query\": \"any macbook documents\"}",
     "42"}

VARIABLES query, history, root, searcher, has_rewriter, has_on_step, served,
          intent, parsed, routed, pc, rewritten, messages, step, raw, tool_call, all_sources, answer, sources,
          model_calls, notified, executed, error

\* search_and_extract: its position, what leann.search returned, the chunks
\* left to map and the index of the next one, facts_by_source, the calls of
\* _extract_facts, the number of calls of _filename_fallback, its
\* matching_paths and the calls of file_reader.read, the two optional
\* collaborators, and the return value.
VARIABLES search_pc, retrieved, chunks, cursor, facts_by_source, extractions, fallback_calls,
          matching_paths, read_calls, has_file_reader, has_toolbox, returned

search_state == <<search_pc, retrieved, chunks, cursor, facts_by_source, extractions,
                  fallback_calls, matching_paths, read_calls, has_file_reader, has_toolbox,
                  returned>>

\* No search_and_extract is running.
SearchIdle ==
    /\ search_pc = "idle"
    /\ retrieved = <<>>
    /\ chunks = <<>>
    /\ cursor = 0
    /\ facts_by_source = <<>>
    /\ extractions = <<>>
    /\ fallback_calls = 0
    /\ matching_paths = <<>>
    /\ read_calls = <<>>
    /\ has_file_reader = FALSE
    /\ has_toolbox = FALSE
    /\ returned = NoReturn

\* The inference calls into ModelManager (src/models.py): each thread's
\* position and current call, the holder of each lock, and the calls that ended.
VARIABLES callers, locks, finished

lock_state == <<callers, locks, finished>>

Threads == {"t1", "t2", "t3"}

Managers == {"m1", "m2"}

\* A thread that is in no inference call.
NotCalling == [at |-> "idle", manager |-> "", method |-> ""]

\* No inference call was made.
LockIdle ==
    /\ callers = [t \in Threads |-> NotCalling]
    /\ locks = [l \in {"ModelManager"} \cup Managers |-> "free"]
    /\ finished = <<>>

\* ImageCaptioner.run (src/image_captioner.py): its position, the images found
\* and those not cached, the loop index, the loads submitted to the executor
\* and the index of next_future among them, the loads awaited, data_uri, the
\* calls of caption_image, new_captions, the calls of _inject_captions and
\* the events sent.
VARIABLES caption_pc, images, uncached, current, futures, next_future, awaited, data_uri,
          caption_calls, new_captions, injections, events

caption_state == <<caption_pc, images, uncached, current, futures, next_future, awaited,
                   data_uri, caption_calls, new_captions, injections, events>>

\* No run of the captioner.
CaptionIdle ==
    /\ caption_pc = "idle"
    /\ images = <<>>
    /\ uncached = <<>>
    /\ current = 0
    /\ futures = <<>>
    /\ next_future = 0
    /\ awaited = <<>>
    /\ data_uri = ""
    /\ caption_calls = <<>>
    /\ new_captions = <<>>
    /\ injections = <<>>
    /\ events = <<>>

\* The server (src/server.py): Server.state, Server.running, whether
\* Server.model is set, Server.directories in insertion order, the names of
\* the indexes on disk, where the loop of Server.run stands, the request it
\* dispatched last and the response it printed for it, how many requests it
\* dispatched and how many responses it printed, what the last request did
\* to watchers, indexes and agents, and whether a handler has raised so far.
VARIABLES server_state, running, model_loaded, directories, disk, loop, request, reply,
          handled, answered, effects, faulted

protocol_state == <<server_state, running, model_loaded, directories, disk, loop, request,
                    reply, handled, answered, effects, faulted>>

\* params of a request, with the defaults of the handlers for absent keys
Params(dataDir, pipeline, reuse, text, searchAll, directoryId) ==
    [dataDir |-> dataDir, pipeline |-> pipeline, reuse |-> reuse, text |-> text,
     searchAll |-> searchAll, directoryId |-> directoryId]

NoParams == Params("./test_data", "leann", PNone, "", FALSE, PNone)

NoRequest == [id |-> PNone, method |-> PNone, params |-> NoParams]

NoReply == [id |-> PNone, type |-> "none", data |-> ""]

\* Server() before its first request, with no index on disk.
ProtocolIdle ==
    /\ server_state = "not_initialized"
    /\ running = TRUE
    /\ model_loaded = FALSE
    /\ directories = <<>>
    /\ disk = {}
    /\ loop = "reading"
    /\ request = NoRequest
    /\ reply = NoReply
    /\ handled = 0
    /\ answered = 0
    /\ effects = <<>>
    /\ faulted = FALSE

\* The indexer (src/indexer.py) of one data directory and one index name:
\* the mtime of each file of the directory (0: no such file), whether
\* documents.leann.meta.json exists, manifest.json (no element: no such
\* file), what the last call did in order, and the last call and how it
\* ended.
VARIABLES data_dir, index_meta, manifest_json, indexer_calls, invoked

indexer_state == <<data_dir, index_meta, manifest_json, indexer_calls, invoked>>

\* The files a data directory may hold, as sorted(data_dir.rglob("*")) lists
\* them.
FileNames == <<"notes.txt", "photo.png", "report.pdf", "scan.pdf">>

NotInvoked == [call |-> "none", force |-> FALSE, outcome |-> "none"]

\* An empty data directory that was never indexed.
IndexerIdle ==
    /\ data_dir = [n \in {FileNames[i] : i \in DOMAIN FileNames} |-> 0]
    /\ index_meta = FALSE
    /\ manifest_json = <<>>
    /\ indexer_calls = <<>>
    /\ invoked = NotInvoked

\* The state of the components that run beside the agent loop.
outside == <<search_state, lock_state, caption_state, protocol_state, indexer_state>>

\* One call of self.model.generate: the messages passed and the text returned.
ModelCall(sent, text) == [messages |-> sent, text |-> text]

env == <<query, history, root, searcher, has_rewriter, has_on_step, served,
         intent, parsed, routed, outside>>

\* The locals of Agent.run.
run_locals == <<pc, rewritten, messages, step, raw, tool_call, all_sources, answer, sources,
                model_calls, notified, executed, error>>

vars == <<query, history, root, searcher, has_rewriter, has_on_step, served,
          intent, parsed, routed, pc, rewritten, messages, step, raw, tool_call, all_sources, answer, sources,
          model_calls, notified, executed, error, outside>>

\* No run of the agent: the variables of Agent.run and of the server at rest.
AgentIdle ==
    /\ history = <<>>
    /\ searcher = "Searcher"
    /\ has_rewriter = FALSE
    /\ has_on_step = FALSE
    /\ served = 0
    /\ intent = PNone
    /\ parsed = PNone
    /\ routed = PNone
    /\ pc = "idle"
    /\ rewritten = NoRewrite
    /\ messages = <<>>
    /\ step = 0
    /\ raw = ""
    /\ tool_call = NoCall
    /\ all_sources = <<>>
    /\ answer = PNone
    /\ sources = <<>>
    /\ model_calls = <<>>
    /\ notified = <<>>
    /\ executed = <<>>
    /\ error = ""

Init ==
    /\ query \in Queries
    /\ history \in Histories
    /\ root \in Roots
    /\ searcher \in Searchers
    /\ has_rewriter \in BOOLEAN
    /\ has_on_step \in BOOLEAN
    /\ served = 0
    /\ intent = PNone
    /\ parsed = PNone
    /\ routed = PNone
    /\ SearchIdle
    /\ LockIdle
    /\ CaptionIdle
    /\ ProtocolIdle
    /\ IndexerIdle
    /\ pc = "start"
    /\ rewritten = NoRewrite
    /\ messages = <<>>
    /\ step = 0
    /\ raw = ""
    /\ tool_call = NoCall
    /\ all_sources = <<>>
    /\ answer = PNone
    /\ sources = <<>>
    /\ model_calls = <<>>
    /\ notified = <<>>
    /\ executed = <<>>
    /\ error = ""

\* The number of calls of self.model.generate so far.
generate_calls == Len(model_calls)

\* effective_query
EffectiveQuery(rw) == IF rw.kind = "ok" THEN rw.resolved_query ELSE PStr(query)

InitialMessages(rw) ==
    <<Message("system", PStr(SYSTEM_PROMPT))>> \o LastFour(history)
        \o <<Message("user", EffectiveQuery(rw))>>

\* run, up to the loop: the rewrite and the first message list.
Begin(rw) ==
    /\ pc = "start"
    /\ rewritten' = rw
    /\ IF rw.kind \in {"ok", "none"}
       THEN /\ messages' = InitialMessages(rw)
            /\ pc' = "generate"
            /\ error' = error
       ELSE /\ pc' = "raised"
            /\ error' = rw.kind
            /\ messages' = messages
    /\ UNCHANGED <<env, step, raw, tool_call, all_sources, answer, sources, model_calls,
                   notified, executed>>

Start ==
    \/ ~has_rewriter /\ Begin(NoRewrite)
    \/ has_rewriter /\ \E out \in RewriterOutputs : Begin(rewrite(query, out))

\* The head of the loop body: raw = self.model.generate(messages, ...) and
\* tool_call = self._parse_tool_call(raw).
Generate ==
    /\ pc = "generate"
    /\ step < MAX_STEPS
    /\ \E r \in Responses :
          /\ raw' = r
          /\ tool_call' = _parse_tool_call(r)
    /\ model_calls' = Append(model_calls, ModelCall(messages, raw'))
    /\ pc' = "handle"
    /\ UNCHANGED <<env, rewritten, messages, step, all_sources, answer, sources,
                   notified, executed, error>>

\* return (text, list(dict.fromkeys(all_sources)))
Return(text) ==
    /\ answer' = text
    /\ sources' = Dedup(all_sources)
    /\ pc' = "done"

\* What follows execute: the unpacking  result, sources = ...,  the extend,
\* the two appends, and on to the next step; or the exception.
Unpacking(tool_name, un) ==
    IF un.ok
    THEN /\ all_sources' = all_sources \o un.sources
         /\ messages' = messages \o
               <<Message("assistant", PStr(raw)),
                 Message("tool", PStr(JsonDumpsToolMessage(tool_name, un.result)))>>
         /\ step' = step + 1
         /\ pc' = IF step + 1 < MAX_STEPS THEN "generate" ELSE "final"
         /\ error' = error
    ELSE /\ pc' = "raised"
         /\ error' = un.exc
         /\ UNCHANGED <<all_sources, messages, step>>

\* Executing as a loop that notifies the observer of the model's own calls
\* only, not of the router's or the follow-up's, would do it.
ExecutingOwnCallsNotified(tool_name, params, via, ret) ==
    /\ notified' = IF has_on_step /\ via = "model"
                   THEN Append(notified, [step |-> step, tool |-> tool_name, params |-> params])
                   ELSE notified
    /\ executed' = Append(executed, [step |-> step, tool |-> tool_name, params |-> params,
                                     via |-> via, ret |-> ret])
    /\ Unpacking(tool_name, Unpack(ret))
    /\ UNCHANGED <<env, rewritten, raw, tool_call, answer, sources, model_calls>>

\* The on_step notification and the call of execute, which returned ret.
Executing(tool_name, params, via, ret) ==
    /\ notified' = IF has_on_step
                   THEN Append(notified, [step |-> step, tool |-> tool_name, params |-> params])
                   ELSE notified
    /\ executed' = Append(executed, [step |-> step, tool |-> tool_name, params |-> params,
                                     via |-> via, ret |-> ret])
    /\ Unpacking(tool_name, Unpack(ret))
    /\ UNCHANGED <<env, rewritten, raw, tool_call, answer, sources, model_calls>>

\* One tool dispatch of the loop body.
Dispatch(tool_name, params, via) ==
    \E found \in SearcherReturns(searcher) :
        Executing(tool_name, params, via, execute(root, tool_name, params, found))

\* _parse_tool_call raised
HandleParseError ==
    /\ pc = "handle"
    /\ tool_call.kind = "raise"
    /\ pc' = "raised"
    /\ error' = tool_call.format
    /\ UNCHANGED <<env, rewritten, messages, step, raw, tool_call, all_sources, answer, sources,
                   model_calls, notified, executed>>

\* DispatchRouted with a router that answers every query with count_files.
DispatchRoutedCounting(choice, search_query) ==
    Dispatch(PStr("count_files"), EmptyDict, "router")

\* The router's tool, with search_query as the query of a semantic search.
DispatchRouted(choice, search_query) ==
    Dispatch(PStr(choice.tool),
             IF choice.tool = "semantic_search"
             THEN Put(choice.params, "query", search_query)
             ELSE choice.params,
             "router")

\* HandleRouter as a loop that asks the router on every step without a tool
\* call would do it.
HandleRouterAnyStep ==
    /\ pc = "handle"
    /\ tool_call.kind = "none"
    /\ DispatchRouted(route(query, IF rewritten.kind = "ok" THEN rewritten.intent ELSE PNone),
                      IF rewritten.kind = "ok" THEN rewritten.search_query ELSE PStr(query))

\* HandleRouter, were the router handed the resolved query of the rewrite.
HandleRouterResolved ==
    /\ pc = "handle"
    /\ tool_call.kind = "none"
    /\ step = 0
    /\ DispatchRouted(route(Format(EffectiveQuery(rewritten)),
                            IF rewritten.kind = "ok" THEN rewritten.intent ELSE PNone),
                      IF rewritten.kind = "ok" THEN rewritten.search_query ELSE PStr(query))

\* tool_call is None at step 0: the fallback router chooses the tool
HandleRouter ==
    /\ pc = "handle"
    /\ tool_call.kind = "none"
    /\ step = 0
    /\ DispatchRouted(route(query, IF rewritten.kind = "ok" THEN rewritten.intent ELSE PNone),
                      IF rewritten.kind = "ok" THEN rewritten.search_query ELSE PStr(query))

\* FollowupOrReturn as a loop that takes a plain text for one more turn of
\* the conversation would do it: the text is appended and the loop goes on.
FollowupOrContinue(followup) ==
    IF followup.kind = "call"
    THEN Dispatch(followup.name, followup.params, "followup")
    ELSE /\ messages' = Append(messages, Message("assistant", PStr(raw)))
         /\ step' = step + 1
         /\ pc' = IF step + 1 < MAX_STEPS THEN "generate" ELSE "final"
         /\ UNCHANGED <<env, rewritten, raw, tool_call, all_sources, answer, sources,
                        model_calls, notified, executed, error>>

\* if followup: dispatch it; else return (raw, ...)
FollowupOrReturn(followup) ==
    IF followup.kind = "call"
    THEN Dispatch(followup.name, followup.params, "followup")
    ELSE /\ Return(PStr(raw))
         /\ UNCHANGED <<env, rewritten, messages, step, raw, tool_call, all_sources,
                        model_calls, notified, executed, error>>

\* HandleNoCall as a check that counts the response being judged as part of
\* the conversation would do it.
HandleNoCallJudgingResponse ==
    /\ pc = "handle"
    /\ tool_call.kind = "none"
    /\ step > 0
    /\ FollowupOrReturn(_needs_followup(query, Append(messages, Message("assistant", PStr(raw)))))

\* tool_call is None after step 0: the follow-up tool if _needs_followup
\* proposes one, else the text is the answer
HandleNoCall ==
    /\ pc = "handle"
    /\ tool_call.kind = "none"
    /\ step > 0
    /\ FollowupOrReturn(_needs_followup(query, messages))

\* HandleRespond as a loop that treats respond like any other tool up to the
\* dispatch would do it: the observer is notified before the return.
HandleRespondNotifying ==
    /\ pc = "handle"
    /\ tool_call.kind = "call"
    /\ tool_call.name = PStr("respond")
    /\ tool_call.params.t = "dict"
    /\ notified' = Append(notified, [step |-> step, tool |-> tool_call.name,
                                     params |-> tool_call.params])
    /\ Return(Get(tool_call.params, "answer", PStr(raw)))
    /\ UNCHANGED <<env, rewritten, messages, step, raw, tool_call, all_sources, model_calls,
                   executed, error>>

\* the model called respond
HandleRespond ==
    /\ pc = "handle"
    /\ tool_call.kind = "call"
    /\ tool_call.name = PStr("respond")
    /\ IF tool_call.params.t = "dict"
       THEN /\ Return(Get(tool_call.params, "answer", PStr(raw)))
            /\ error' = error
       ELSE /\ pc' = "raised"
            /\ error' = "AttributeError"
            /\ UNCHANGED <<answer, sources>>
    /\ UNCHANGED <<env, rewritten, messages, step, raw, tool_call, all_sources, model_calls,
                   notified, executed>>

\* the model called any other tool
HandleToolCall ==
    /\ pc = "handle"
    /\ tool_call.kind = "call"
    /\ tool_call.name # PStr("respond")
    /\ Dispatch(tool_call.name, tool_call.params, "model")

\* ForceSynthesis as a loop that treats the forced call as one more step
\* would do it: the instruction and the call, then the forced call again.
ForceSynthesisAgain ==
    /\ pc = "final"
    /\ messages' = Append(messages, Message("user", PStr(FINAL_INSTRUCTION)))
    /\ \E final \in Responses :
          /\ model_calls' = Append(model_calls, ModelCall(messages', final))
          /\ raw' = final
    /\ UNCHANGED <<env, pc, rewritten, step, tool_call, all_sources, answer, sources,
                   notified, executed, error>>

\* The answer in a text that holds a respond call, else the text.
AnswerIn(call, text) ==
    IF call.kind = "call" /\ call.name = PStr("respond") /\ call.params.t = "dict"
    THEN Get(call.params, "answer", PStr(text))
    ELSE PStr(text)

\* ForceSynthesis as a forced call whose text goes through the tool-call
\* extractor would do it.
ForceSynthesisParsed ==
    /\ pc = "final"
    /\ messages' = Append(messages, Message("user", PStr(FINAL_INSTRUCTION)))
    /\ \E final \in Responses :
          /\ model_calls' = Append(model_calls, ModelCall(messages', final))
          /\ Return(AnswerIn(_parse_tool_call(final), final))
    /\ UNCHANGED <<env, rewritten, step, raw, tool_call, all_sources, notified, executed, error>>

\* after the loop: the final instruction and one more generate
ForceSynthesis ==
    /\ pc = "final"
    /\ messages' = Append(messages, Message("user", PStr(FINAL_INSTRUCTION)))
    /\ \E final \in Responses :
          /\ model_calls' = Append(model_calls, ModelCall(messages', final))
          /\ Return(PStr(final))
    /\ UNCHANGED <<env, rewritten, step, raw, tool_call, all_sources, notified, executed, error>>

Next ==
    \/ Start
    \/ Generate
    \/ HandleParseError
    \/ HandleRouter
    \/ HandleNoCall
    \/ HandleRespond
    \/ HandleToolCall
    \/ ForceSynthesis

Spec == Init /\ [][Next]_vars

(***************************************************************************)
(* The follow-up check on its own: the agent at a step after the first,    *)
(* the model having answered in plain text, after any conversation of up   *)
(* to MaxExchanges tool exchanges.  The exchanges are those a registry     *)
(* that returns pairs leaves behind (the registries of src/tests).         *)
(***************************************************************************)
MaxExchanges == 3

\* The queries of the follow-up check: one more, whose keywords a result covers.
FollowupQueries == Queries \cup {"any macbook receipts"}

ExchangeTools == {"semantic_search", "grep_files", "directory_tree"}

ExchangeResults == {"No matching content found.", "From notes.txt:\n  - macbook receipt"}

Exchange(tool, result) ==
    <<Message("assistant", PStr("I found some results.")),
      Message("tool", PStr(JsonDumpsToolMessage(PStr(tool), result)))>>

RECURSIVE Conversations(_)
\* The message lists after n tool exchanges.
Conversations(n) ==
    IF n = 0
    THEN {<<Message("system", PStr(SYSTEM_PROMPT)), Message("user", PStr(q))>> : q \in FollowupQueries}
    ELSE {c \o Exchange(t, r) : c \in Conversations(n - 1), t \in ExchangeTools, r \in ExchangeResults}

FollowupInit ==
    /\ query \in FollowupQueries
    /\ history = <<>>
    /\ root = [name |-> "a", files |-> <<>>]
    /\ searcher = "FakeSearcher"
    /\ has_rewriter = FALSE
    /\ has_on_step = TRUE
    /\ served = 0
    /\ intent = PNone
    /\ parsed = PNone
    /\ routed = PNone
    /\ SearchIdle
    /\ LockIdle
    /\ CaptionIdle
    /\ ProtocolIdle
    /\ IndexerIdle
    /\ pc = "handle"
    /\ rewritten = NoRewrite
    /\ \E n \in 1..MaxExchanges :
          /\ step = n
          /\ messages \in {c \in Conversations(n) : c[2].content = PStr(query)}
    /\ raw = "I found some results."
    /\ tool_call = NoCall
    /\ all_sources = <<>>
    /\ answer = PNone
    /\ sources = <<>>
    /\ model_calls = <<>>
    /\ notified = <<>>
    /\ executed = <<>>
    /\ error = ""

FollowupSpec == FollowupInit /\ [][HandleNoCall]_vars

(***************************************************************************)
(* The follow-up check judging a plain-text response: as above, with an    *)
(* admitted history before the query and a response that may name a        *)
(* keyword of the query itself.                                            *)
(***************************************************************************)
MaxPrior == 2

\* The responses to judge: one names keywords of a query.
JudgedTexts == {"I found some results.", "No macbook invoices here."}

\* conversation_history of the directory: empty, or one earlier turn.
JudgeHistories ==
    {<<>>,
     <<Message("user", PStr("where is my receipt?")),
       Message("assistant", PStr("The macbook receipt is in notes.txt."))>>}

RECURSIVE PriorExchanges(_)
\* The messages that n tool exchanges append to the conversation.
PriorExchanges(n) ==
    IF n = 0 THEN {<<>>}
    ELSE {c \o Exchange(t, r) : c \in PriorExchanges(n - 1), t \in ExchangeTools,
                                 r \in ExchangeResults}

JudgeInit ==
    /\ query \in FollowupQueries
    /\ history \in JudgeHistories
    /\ root = [name |-> "a", files |-> <<>>]
    /\ searcher = "FakeSearcher"
    /\ has_rewriter = FALSE
    /\ has_on_step = TRUE
    /\ served = 0
    /\ intent = PNone
    /\ parsed = PNone
    /\ routed = PNone
    /\ SearchIdle
    /\ LockIdle
    /\ CaptionIdle
    /\ ProtocolIdle
    /\ IndexerIdle
    /\ pc = "handle"
    /\ rewritten = NoRewrite
    /\ \E n \in 1..MaxPrior :
          /\ step = n
          /\ \E exchanges \in PriorExchanges(n) :
                messages = InitialMessages(NoRewrite) \o exchanges
    /\ raw \in JudgedTexts
    /\ tool_call = NoCall
    /\ all_sources = <<>>
    /\ answer = PNone
    /\ sources = <<>>
    /\ model_calls = <<>>
    /\ notified = <<>>
    /\ executed = <<>>
    /\ error = ""

JudgeSpec == JudgeInit /\ [][HandleNoCall]_vars

(***************************************************************************)
(* The server's conversation history of one ready directory over a         *)
(* sequence of query requests.  agent.run reads the history it is handed   *)
(* (history[-4:] builds a new list) and changes no state of the server, so *)
(* its outcome, a returned answer or an exception, is an input of the      *)
(* handler.                                                                *)
(***************************************************************************)
MaxQueries == 6

\* params["text"] of a query request
Texts == {"  any macbook invoices ", "what is the folder structure?", "  "}

\* What agent.run hands back: the answer of a run that returns, or the
\* exception of one that raises.
RunOutcomes ==
    {[kind |-> "ok", response |-> "You have 2 text files."],
     [kind |-> "ok", response |-> "I found some results."],
     [kind |-> "raise", exc |-> "ValueError"]}

\* conversation_history[-10:] once the history has more than ten entries
LastTen(h) == IF Len(h) > 10 THEN SubSeq(h, Len(h) - 9, Len(h)) ELSE h

\* Remember with the cap keeping conversation_history[:10], the oldest entries.
RememberOldest(h, q, response) ==
    LET all == h \o <<Message("user", PStr(q)), Message("assistant", PStr(response))>>
    IN  IF Len(all) > 10 THEN SubSeq(all, 1, 10) ELSE all

\* the two appends and the cap that end handle_query and each round of _query_all
Remember(h, q, response) ==
    LastTen(h \o <<Message("user", PStr(q)), Message("assistant", PStr(response))>>)

\* handle_query for a request on the ready directory, searchAll or not:
\* with one ready directory _query_all runs the same round once.
handle_query(text, out) ==
    /\ pc = "idle"
    /\ served < MaxQueries
    /\ query' = Strip(text)
    /\ IF query' = ""
       THEN /\ error' = "Empty query"
            /\ UNCHANGED <<history, answer, served>>
       ELSE IF out.kind = "raise"
       THEN /\ error' = out.exc
            /\ UNCHANGED <<history, answer, served>>
       ELSE /\ error' = ""
            /\ answer' = PStr(out.response)
            /\ history' = Remember(history, query', out.response)
            /\ served' = served + 1
    /\ UNCHANGED <<root, searcher, has_rewriter, has_on_step, intent, parsed, routed, pc,
                   rewritten, messages, step, raw, tool_call, all_sources, sources, model_calls, notified,
                   executed, outside>>

HandleQuery == \E text \in Texts, out \in RunOutcomes : handle_query(text, out)

\* The directory entry as handle_init leaves it: ready, with an empty history.
ServerInit ==
    /\ query = ""
    /\ history = <<>>
    /\ root = [name |-> "a", files |-> <<>>]
    /\ searcher = "Searcher"
    /\ has_rewriter = TRUE
    /\ has_on_step = TRUE
    /\ served = 0
    /\ intent = PNone
    /\ parsed = PNone
    /\ routed = PNone
    /\ SearchIdle
    /\ LockIdle
    /\ CaptionIdle
    /\ ProtocolIdle
    /\ IndexerIdle
    /\ pc = "idle"
    /\ rewritten = NoRewrite
    /\ messages = <<>>
    /\ step = 0
    /\ raw = ""
    /\ tool_call = NoCall
    /\ all_sources = <<>>
    /\ answer = PNone
    /\ sources = <<>>
    /\ model_calls = <<>>
    /\ notified = <<>>
    /\ executed = <<>>
    /\ error = ""

ServerSpec == ServerInit /\ [][HandleQuery]_vars

(***************************************************************************)
(* The pure components on their own: the tool-call extractor, parse_json,  *)
(* the query rewriter and the fallback router, each applied once to inputs *)
(* drawn from the sets below.                                              *)
(***************************************************************************)
\* Texts a model returns: to the agent (tool calls in each format, in
\* several formats at once, plain text, JSON that is no object) and to the
\* rewriter (objects with and without the three keys, broken JSON).
ModelTexts ==
    {"<|tool_call_start|>semantic_search(query=\"budget\")<|tool_call_end|>",
     "[directory_tree(max_depth=2)]",
     "Let me call list_files(limit=5) now.",
     "I found some results.",
     "42", "true", "null", "[1]", "\"name\"", "[\"name\"]",
     "{\"name\": \"count_files\", \"params\": {\"extension\": \"pdf\"}}",
     "{\"name\": 5}",
     "{\"name\": \"count_files\"} <|tool_call_start|>list_files()<|tool_call_end|>",
     "<|tool_call_start|>oops<|tool_call_end|> {\"name\": \"count_files\"} [grep_files()]",
     "{\"name\": \"count_files\"} [list_files()]",
     "{\"tool\": \"x\"} [magic_tool()] list_files()",
     "[magic_tool()] list_files()",
     "{\"intent\": \"count\", \"search_query\": \"pdf files\", \"resolved_query\": \"how many pdf files\"}",
     "Sure: {\"intent\": \"poetry\", \"search_query\": \"\", \"resolved_query\": \"all invoices\"} done",
     "{\"intent\": 7, \"search_query\": null}",
     "{\"intent\": [\"count\"]}",
     "{\"intent\": \"count\", \"search_query\": \"pdf",
     "\"relevant\": TRUE, \"facts\": [\"a\", b]"}

\* Queries a user asks: with and without routing keywords, in mixed case.
RouterQueries ==
    {"What is the Target Revenue?", "how many PDF files?", "how many PDFs?",
     "show me the directory structure", "which folder has the most pdf files?",
     "biggest files", "total disk usage", "when was invoice.pdf modified?",
     "how much storage am I using?"}

\* intent as Agent.run passes it: rewrite["intent"], or None without a rewrite.
Intents == {PNone} \cup {PStr(i) : i \in {"factual", "count", "metadata"}}

\* tool_call = self._parse_tool_call(raw)
Extract ==
    /\ pc = "component"
    /\ tool_call' = _parse_tool_call(raw)
    /\ pc' = "extracted"
    /\ UNCHANGED <<env, rewritten, messages, step, raw, all_sources, answer, sources,
                   model_calls, notified, executed, error>>

\* parsed = parse_json(raw)
ParseJson ==
    /\ pc = "component"
    /\ parsed' = parse_json(raw)
    /\ pc' = "parsed"
    /\ UNCHANGED <<query, history, root, searcher, has_rewriter, has_on_step, served, intent,
                   routed, rewritten, messages, step, raw, tool_call, all_sources, answer,
                   sources, model_calls, notified, executed, error, outside>>

\* QueryRewriter.rewrite(query), the model having returned raw
Rewrite ==
    /\ pc = "component"
    /\ rewritten' = rewrite(query, raw)
    /\ pc' = "rewritten"
    /\ UNCHANGED <<env, messages, step, raw, tool_call, all_sources, answer, sources,
                   model_calls, notified, executed, error>>

\* tool_name, params = route(query, intent=intent)
Route ==
    /\ pc = "component"
    /\ routed' = route(query, intent)
    /\ pc' = "routed"
    /\ UNCHANGED <<query, history, root, searcher, has_rewriter, has_on_step, served, intent,
                   parsed, rewritten, messages, step, raw, tool_call, all_sources, answer,
                   sources, model_calls, notified, executed, error, outside>>

ComponentInit ==
    /\ query \in RouterQueries
    /\ history = <<>>
    /\ root = [name |-> "a", files |-> <<>>]
    /\ searcher = "Searcher"
    /\ has_rewriter = TRUE
    /\ has_on_step = FALSE
    /\ served = 0
    /\ intent \in Intents
    /\ parsed = PNone
    /\ routed = PNone
    /\ SearchIdle
    /\ LockIdle
    /\ CaptionIdle
    /\ ProtocolIdle
    /\ IndexerIdle
    /\ pc = "component"
    /\ rewritten = NoRewrite
    /\ messages = <<>>
    /\ step = 0
    /\ raw \in ModelTexts
    /\ tool_call = NoCall
    /\ all_sources = <<>>
    /\ answer = PNone
    /\ sources = <<>>
    /\ model_calls = <<>>
    /\ notified = <<>>
    /\ executed = <<>>
    /\ error = ""

ComponentNext == Extract \/ ParseJson \/ Rewrite \/ Route

ComponentSpec == ComponentInit /\ [][ComponentNext]_vars

(***************************************************************************)
(* The searcher (src/searcher.py).  A chunk is a record [id, score,        *)
(* metadata]; a score is held in hundredths, so that 0.85 times a score is *)
(* 85 times it on the scale of a hundred times the other side.  The dict   *)
(* facts_by_source is the sequence of its [source, facts] entries in       *)
(* insertion order.                                                        *)
(***************************************************************************)
MAX_FACTS_PER_CHUNK == 10

NoneRelevant == "Search returned results but none were relevant to the query."

\* PurePosixPath(path).name
PathName(path) == From(path, RFind(path, "/", 1, Len(path) + 1) + 1)

\* a or b, for Python values
OrElse(a, b) == IF Truthy(a) THEN a ELSE b

_get_source(chunk) ==
    LET meta == OrElse(chunk.metadata, EmptyDict)
        name == OrElse(Get(meta, "source", PNone),
                       OrElse(Get(meta, "file_name", PNone),
                              OrElse(Get(meta, "file", PNone), Get(meta, "filename", PNone))))
    IN  IF Truthy(name) THEN Format(name)
        ELSE IF Truthy(Get(meta, "file_path", PNone)) THEN PathName(meta.m["file_path"].s)
        ELSE chunk.id

\* The keys of a dict in order: the model's dicts keep no insertion order, and
\* the facts modelled hold their values in the order of their keys.
KeysOf(d) ==
    LET keys == DOMAIN d.m
    IN  [p \in 1..Cardinality(keys) |->
            CHOOSE k \in keys : Cardinality({j \in keys : StrLess(j, k)}) = p - 1]

\* The result of _normalize_fact before its length test: a string, "" for None.
FactText(f) ==
    IF f.t = "str" /\ Strip(f.s) # "" THEN Strip(f.s)
    ELSE IF f.t = "dict"
    THEN IF Truthy(Get(f, "name", PStr(""))) /\ Truthy(Get(f, "value", PStr("")))
         THEN Format(f.m["name"]) \o ": " \o Format(f.m["value"])
         ELSE Join(": ", [p \in 1..Len(SelectSeq(KeysOf(f), LAMBDA k : Truthy(f.m[k]))) |->
                             Format(f.m[SelectSeq(KeysOf(f), LAMBDA k : Truthy(f.m[k]))[p]])])
    ELSE ""

\* None is the Python value PNone, a fact the string value.
_normalize_fact(f) ==
    IF Len(FactText(f)) >= 3 THEN PStr(FactText(f)) ELSE PNone

\* The facts of a parsed response: the list itself, or its "facts" entry.
FactsOf(value) ==
    LET facts == IF value.t = "list" THEN value ELSE Get(value, "facts", PList(<<>>))
    IN  IF facts.t = "list" THEN facts.m ELSE <<>>

\* _extract_facts from the parse of the model's response on: [kind, facts],
\* kind "facts" with the normalised facts, or "raise" where parsed.get raises
\* AttributeError, the value being neither None nor a list nor a dict.
ExtractParsed(value) ==
    IF value.t = "none" THEN [kind |-> "facts", facts |-> <<>>]
    ELSE IF value.t \notin {"list", "dict"} THEN [kind |-> "raise", facts |-> <<>>]
    ELSE [kind  |-> "facts",
          facts |-> LET first == SubSeq(FactsOf(value), 1, Min({MAX_FACTS_PER_CHUNK, Len(FactsOf(value))}))
                        normal == [k \in 1..Len(first) |-> _normalize_fact(first[k])]
                        kept == SelectSeq(normal, LAMBDA f : f.t # "none")
                    IN  [k \in 1..Len(kept) |-> kept[k].s]]

\* _extract_facts(query, chunk), the model having returned text
_extract_facts(text) == ExtractParsed(parse_json(text))

\* The score pre-filter: with more than one chunk, keep those whose score
\* reaches 0.85 times the first chunk's.
ScoreFilter(cs) ==
    IF Len(cs) > 1 THEN SelectSeq(cs, LAMBDA c : c.score * 100 >= cs[1].score * 85) ELSE cs

\* facts_by_source.setdefault(source, []).extend(facts)
Extend(by_source, source, facts) ==
    IF \E k \in 1..Len(by_source) : by_source[k].source = source
    THEN [k \in 1..Len(by_source) |->
             IF by_source[k].source = source
             THEN [source |-> source, facts |-> by_source[k].facts \o facts]
             ELSE by_source[k]]
    ELSE Append(by_source, [source |-> source, facts |-> facts])

RECURSIVE FormatFacts(_)
\* The lines "From <source>:" and "  - <fact>" of the entries, in order.
FormatFacts(by_source) ==
    IF by_source = <<>> THEN <<>>
    ELSE <<"From " \o Head(by_source).source \o ":">>
         \o [k \in 1..Len(Head(by_source).facts) |-> "  - " \o Head(by_source).facts[k]]
         \o FormatFacts(Tail(by_source))

\* ToolBox.grep_paths(pattern, limit): the files, by name
grep_paths(dir, pattern, limit) ==
    LET files   == SelectSeq(dir.files, LAMBDA f : ~StartsAt(f.name, ".", 1))
        matches == SelectSeq(files, LAMBDA f : Contains(Lower(f.name), Lower(pattern)))
    IN  SubSeq(matches, 1, Min({limit, Len(matches)}))

RECURSIVE AddUnseen(_, _)
\* The paths of found not yet in paths, appended in order.
AddUnseen(paths, found) ==
    IF found = <<>> THEN paths
    ELSE AddUnseen(IF \E k \in 1..Len(paths) : paths[k].name = Head(found).name
                   THEN paths ELSE Append(paths, Head(found)),
                   Tail(found))

RECURSIVE MatchingPaths(_, _, _)
\* The unique files whose name holds a keyword, in the order found.
MatchingPaths(dir, keywords, paths) ==
    IF keywords = <<>> THEN paths
    ELSE MatchingPaths(dir, Tail(keywords), AddUnseen(paths, grep_paths(dir, Head(keywords), 3)))

\* FileReader.read(path) for a file that exists: its text, or what is
\* returned when extraction raises or gives no text.
read(f) ==
    IF f.fails THEN "Failed to read " \o f.name \o ": corrupt"
    ELSE IF Strip(f.text) = "" THEN "No text content extracted from " \o f.name
    ELSE f.text

\* The texts the fallback skips.
Skipped(text) ==
    \/ StartsAt(text, "File not found", 1)
    \/ StartsAt(text, "Failed to read", 1)
    \/ StartsAt(text, "No text content", 1)

(***************************************************************************)
(* The searcher's environment: what leann.search returns, the indexed      *)
(* directory, the query, and what the model answers to an extraction.      *)
(***************************************************************************)
MaxChunks == 3

Scores == {100, 85, 84}

\* The metadata of the chunk at each position of a retrieval.
ChunkMetadata ==
    <<PDict([k \in {"file_name"} |-> PStr("notes.txt")]),
      PDict([k \in {"source"} |-> PStr("budget.pdf")]),
      PDict([k \in {"file_path"} |-> PStr("/docs/notes.txt")])>>

Chunk(k, score) == [id |-> ToString(k - 1), score |-> score, metadata |-> ChunkMetadata[((k - 1) % 3) + 1]]

Retrievals ==
    UNION {{[k \in 1..n |-> Chunk(k, scores[k])] : scores \in [1..n -> Scores]} : n \in 0..MaxChunks}

Doc(name, text, fails) == [name |-> name, text |-> text, fails |-> fails]

SearchRoots ==
    {[name |-> "docs", files |-> <<Doc("macbook-invoices.txt", "MacBook Pro, total 100", FALSE),
                                   Doc("invoices-1.txt", "Invoice 7", FALSE),
                                   Doc("macbook.pdf", "", TRUE),
                                   Doc("invoices-2.txt", "Invoice 8", FALSE),
                                   Doc(".macbook", "hidden", FALSE),
                                   Doc("notes.txt", "call the bank", FALSE)>>],
     [name |-> "scans", files |-> <<Doc("invoices-0.txt", "  ", FALSE),
                                    Doc("notes.txt", "call the bank", FALSE)>>]}

SearchQueries == {"any macbook invoices", "what is this?", "budget report"}

ExtractorOutputs ==
    {"{\"facts\": [\"Total: 100\", \"ok\"]}",
     "{\"facts\": [{\"name\": \"Total\", \"value\": 100}]}",
     "{\"facts\": []}",
     "[\"Invoice 7\"]",
     "nothing useful",
     "42"}

SearchInit ==
    /\ AgentIdle
    /\ LockIdle
    /\ CaptionIdle
    /\ ProtocolIdle
    /\ IndexerIdle
    /\ query \in SearchQueries
    /\ root \in SearchRoots
    /\ search_pc = "start"
    /\ retrieved \in Retrievals
    /\ chunks = <<>>
    /\ cursor = 0
    /\ facts_by_source = <<>>
    /\ extractions = <<>>
    /\ fallback_calls = 0
    /\ matching_paths = <<>>
    /\ read_calls = <<>>
    /\ has_file_reader \in BOOLEAN
    /\ has_toolbox \in BOOLEAN
    /\ returned = NoReturn

agent_state == <<query, history, root, searcher, has_rewriter, has_on_step, served,
                 intent, parsed, routed, run_locals>>

\* What a step of search_and_extract leaves alone outside the searcher.
beside_search == <<agent_state, lock_state, caption_state, protocol_state, indexer_state>>

\* return text
SearchReturn(text) ==
    /\ search_pc' = "done"
    /\ returned' = RetStr(text)

\* Search, were an empty retrieval to go on to the fallbacks instead of returning.
SearchFallingBack ==
    /\ search_pc = "start"
    /\ chunks' = ScoreFilter(retrieved)
    /\ cursor' = 1
    /\ search_pc' = "map"
    /\ UNCHANGED <<beside_search, retrieved, facts_by_source, extractions, fallback_calls,
                   matching_paths, read_calls, has_file_reader, has_toolbox, returned>>

\* chunks = self.leann.search(query, top_k) and the score pre-filter
Search ==
    /\ search_pc = "start"
    /\ IF retrieved = <<>>
       THEN /\ SearchReturn("No matching content found.")
            /\ UNCHANGED <<chunks, cursor>>
       ELSE /\ chunks' = ScoreFilter(retrieved)
            /\ cursor' = 1
            /\ search_pc' = "map"
            /\ UNCHANGED returned
    /\ UNCHANGED <<beside_search, retrieved, facts_by_source, extractions, fallback_calls,
                   matching_paths, read_calls, has_file_reader, has_toolbox>>

\* One pass of the map loop over chunk: _extract_facts gave extracted.
MapChunk(chunk, extracted) ==
    /\ extractions' = Append(extractions, [id |-> chunk.id, kind |-> extracted.kind, facts |-> extracted.facts])
    /\ IF extracted.kind = "raise"
       THEN /\ search_pc' = "raised"
            /\ returned' = RetRaise("AttributeError")
            /\ UNCHANGED <<cursor, facts_by_source>>
       ELSE /\ facts_by_source' = IF extracted.facts # <<>>
                                  THEN Extend(facts_by_source, _get_source(chunk), extracted.facts)
                                  ELSE facts_by_source
            /\ cursor' = cursor + 1
            /\ UNCHANGED <<search_pc, returned>>
    /\ UNCHANGED <<beside_search, retrieved, chunks, fallback_calls, matching_paths, read_calls,
                   has_file_reader, has_toolbox>>

ExtractChunk ==
    /\ search_pc = "map"
    /\ cursor <= Len(chunks)
    /\ \E text \in ExtractorOutputs : MapChunk(chunks[cursor], _extract_facts(text))

\* The start of _filename_fallback(query): the keywords and the matching paths.
StartFallback(paths) ==
    IF extract_keywords(query) = <<>> \/ paths = <<>>
    THEN /\ SearchReturn(NoneRelevant)
         /\ UNCHANGED <<cursor, matching_paths>>
    ELSE /\ matching_paths' = paths
         /\ cursor' = 1
         /\ search_pc' = "fallback"
         /\ UNCHANGED returned

\* The end of the map loop: the facts formatted, the fallback, or the fixed message.
FinishMap ==
    /\ search_pc = "map"
    /\ cursor > Len(chunks)
    /\ IF facts_by_source # <<>>
       THEN /\ SearchReturn(Join("\n", FormatFacts(facts_by_source)))
            /\ UNCHANGED <<cursor, fallback_calls, matching_paths>>
       ELSE IF has_file_reader /\ has_toolbox
       THEN LET paths == MatchingPaths(root, extract_keywords(query), <<>>)
            IN  /\ fallback_calls' = fallback_calls + 1
                /\ StartFallback(SubSeq(paths, 1, Min({3, Len(paths)})))
       ELSE /\ SearchReturn(NoneRelevant)
            /\ UNCHANGED <<cursor, fallback_calls, matching_paths>>
    /\ UNCHANGED <<beside_search, retrieved, chunks, facts_by_source, extractions, read_calls,
                   has_file_reader, has_toolbox>>

\* One pass of the fallback's loop over path whose text can be used:
\* _extract_facts gave extracted.
MapFile(path, extracted) ==
    /\ extractions' = Append(extractions, [id |-> path.name, kind |-> extracted.kind, facts |-> extracted.facts])
    /\ IF extracted.kind = "raise"
       THEN /\ search_pc' = "raised"
            /\ returned' = RetRaise("AttributeError")
            /\ UNCHANGED <<cursor, facts_by_source>>
       ELSE /\ facts_by_source' = Extend(facts_by_source, path.name,
                                         IF extracted.facts # <<>> THEN extracted.facts
                                         ELSE <<"File found: " \o path.name>>)
            /\ cursor' = cursor + 1
            /\ UNCHANGED <<search_pc, returned>>

\* One pass of the fallback's loop: the file is read, and skipped if it gave no text.
ReadFile ==
    /\ search_pc = "fallback"
    /\ cursor <= Len(matching_paths)
    /\ read_calls' = Append(read_calls, matching_paths[cursor].name)
    /\ IF Skipped(read(matching_paths[cursor]))
       THEN /\ cursor' = cursor + 1
            /\ UNCHANGED <<search_pc, returned, facts_by_source, extractions>>
       ELSE \E text \in ExtractorOutputs : MapFile(matching_paths[cursor], _extract_facts(text))
    /\ UNCHANGED <<beside_search, retrieved, chunks, fallback_calls, matching_paths, has_file_reader,
                   has_toolbox>>

\* The end of the fallback's loop.
FinishFallback ==
    /\ search_pc = "fallback"
    /\ cursor > Len(matching_paths)
    /\ SearchReturn(IF facts_by_source = <<>> THEN NoneRelevant
              ELSE Join("\n", FormatFacts(facts_by_source)))
    /\ UNCHANGED <<beside_search, retrieved, chunks, cursor, facts_by_source, extractions,
                   fallback_calls, matching_paths, read_calls, has_file_reader, has_toolbox>>

SearchNext == Search \/ ExtractChunk \/ FinishMap \/ ReadFile \/ FinishFallback

SearchSpec == SearchInit /\ [][SearchNext]_vars

(***************************************************************************)
(* The model manager (src/models.py).  generate and caption_image run      *)
(* inside "with self._lock", the lock being one attribute of the class.    *)
(***************************************************************************)
MaxCalls == 3

Methods == {"generate", "caption_image"}

\* self._lock, were each manager to hold a lock of its own.
LockOfInstance(manager) == manager

\* self._lock: the attribute of the class ModelManager, whatever the instance.
LockOf(manager) == "ModelManager"

\* The calls made so far, ended or not.
CallsMade == Len(finished) + Cardinality({t \in Threads : callers[t].at # "idle"})

\* The thread is inside the with block of its call.
Inside(t) == callers[t].at \in {"reset", "completion"}

LockInit ==
    /\ AgentIdle
    /\ query = ""
    /\ root = [name |-> "a", files |-> <<>>]
    /\ SearchIdle
    /\ LockIdle
    /\ CaptionIdle
    /\ ProtocolIdle
    /\ IndexerIdle

beside_lock == <<agent_state, search_state, caption_state, protocol_state, indexer_state>>

\* A thread calls manager.generate(...) or manager.caption_image(...) and
\* reaches "with self._lock".
Enter(t, manager, method) ==
    /\ callers[t].at = "idle"
    /\ CallsMade < MaxCalls
    /\ callers' = [callers EXCEPT ![t] = [at |-> "waiting", manager |-> manager, method |-> method]]
    /\ UNCHANGED <<beside_lock, locks, finished>>

\* with self._lock: the lock is acquired once it is free.
Acquire(t) ==
    /\ callers[t].at = "waiting"
    /\ locks[LockOf(callers[t].manager)] = "free"
    /\ locks' = [locks EXCEPT ![LockOf(callers[t].manager)] = t]
    /\ callers' = [callers EXCEPT ![t].at = IF callers[t].method = "generate" THEN "reset"
                                            ELSE "completion"]
    /\ UNCHANGED <<beside_lock, finished>>

\* self.model.reset() in generate
Reset(t) ==
    /\ callers[t].at = "reset"
    /\ callers' = [callers EXCEPT ![t].at = "completion"]
    /\ UNCHANGED <<beside_lock, locks, finished>>

\* The with block is left, by the return or by an exception: the lock is released.
Leave(t, outcome) ==
    /\ locks' = [locks EXCEPT ![LockOf(callers[t].manager)] = "free"]
    /\ finished' = Append(finished, [thread |-> t, manager |-> callers[t].manager,
                                     method |-> callers[t].method, outcome |-> outcome])
    /\ callers' = [callers EXCEPT ![t] = NotCalling]
    /\ UNCHANGED beside_lock

\* create_chat_completion returns and the call returns its content.
ReturnContent(t) ==
    /\ callers[t].at = "completion"
    /\ Leave(t, "returned")

\* The model raises, in reset, in loading the vision model or in the completion.
RaiseInside(t) ==
    /\ Inside(t)
    /\ Leave(t, "raised")

LockNext ==
    \E t \in Threads :
        \/ \E manager \in Managers, method \in Methods : Enter(t, manager, method)
        \/ Acquire(t)
        \/ Reset(t)
        \/ ReturnContent(t)
        \/ RaiseInside(t)

LockSpec == LockInit /\ [][LockNext]_vars

(***************************************************************************)
(* The image captioner (src/image_captioner.py).  An image is a record     *)
(* [name, cached]; a load submitted to the executor is a record [pos,      *)
(* state], pos the index in uncached of the image it loads and state       *)
(* "pending", "loaded" or "failed".  The executor has one worker, which    *)
(* runs the loads in the order submitted.                                  *)
(***************************************************************************)
MaxImages == 3

\* The name of the k-th image found.
ImageName(k) == "img" \o ToString(k) \o ".jpg"

\* What _find_images returns, sorted, each image cached or not.
ImageLists ==
    UNION {{[k \in 1..n |-> [name |-> ImageName(k), cached |-> c[k]]] :
                c \in [1..n -> BOOLEAN]} : n \in 0..MaxImages}

\* _load_image_as_data_uri(path)
_load_image_as_data_uri(name) == "data:image/jpeg;base64," \o name

\* An event passed to send_fn.
Event(kind, state, done, total) == [kind |-> kind, state |-> state, done |-> done, total |-> total]

CaptionInit ==
    /\ AgentIdle
    /\ query = ""
    /\ root = [name |-> "a", files |-> <<>>]
    /\ SearchIdle
    /\ LockIdle
    /\ ProtocolIdle
    /\ IndexerIdle
    /\ caption_pc = "start"
    /\ images \in ImageLists
    /\ uncached = <<>>
    /\ current = 0
    /\ futures = <<>>
    /\ next_future = 0
    /\ awaited = <<>>
    /\ data_uri = ""
    /\ caption_calls = <<>>
    /\ new_captions = <<>>
    /\ injections = <<>>
    /\ events = <<>>

beside_caption == <<agent_state, search_state, lock_state, protocol_state, indexer_state>>

\* executor.submit(self._load_image_as_data_uri, uncached[pos])
Submit(pos) == Append(futures, [pos |-> pos, state |-> "pending"])

\* The index of the image pre-loaded while the image at pos is captioned,
\* were the loader to run two ahead.
NextLoadSkipping(pos) == pos + 2

\* The index of the image pre-loaded while the image at pos is captioned.
NextLoad(pos) == pos + 1

\* Whether the except branch submits a load, were it never to.
NeverResubmits(pos) == FALSE

\* Whether the except branch submits the load of the next image again.
Resubmits(pos) == pos + 1 <= Len(uncached)

\* The start of run: the images found, the cached ones set aside, the status
\* event, and the first load submitted.
FindImages ==
    /\ caption_pc = "start"
    /\ IF images = <<>>
       THEN /\ caption_pc' = "done"
            /\ UNCHANGED <<uncached, current, futures, next_future, events>>
       ELSE LET todo == SelectSeq(images, LAMBDA img : ~img.cached)
            IN  /\ uncached' = todo
                /\ events' = Append(events, Event("status", "captioning", 0, 0))
                /\ IF todo # <<>>
                   THEN /\ futures' = Submit(1)
                        /\ next_future' = 1
                        /\ current' = 1
                        /\ caption_pc' = "await"
                   ELSE /\ caption_pc' = "finish"
                        /\ UNCHANGED <<futures, next_future, current>>
    /\ UNCHANGED <<beside_caption, images, awaited, data_uri, caption_calls, new_captions,
                   injections>>

\* The executor's worker runs the oldest pending load, which gives the data or raises.
Load ==
    /\ \E k \in 1..Len(futures) :
           /\ futures[k].state = "pending"
           /\ \A j \in 1..(k - 1) : futures[j].state # "pending"
           /\ \E state \in {"loaded", "failed"} :
                  futures' = [futures EXCEPT ![k].state = state]
    /\ UNCHANGED <<beside_caption, caption_pc, images, uncached, current, next_future, awaited,
                   data_uri, caption_calls, new_captions, injections, events>>

\* The loop goes on to the image after pos, or ends.
Continue(pos) ==
    /\ current' = pos + 1
    /\ caption_pc' = IF pos + 1 <= Len(uncached) THEN "await" ELSE "finish"

\* except Exception: the next load is submitted again, and the loop continues.
Except(pos) ==
    /\ IF Resubmits(pos)
       THEN /\ futures' = Submit(pos + 1)
            /\ next_future' = Len(futures) + 1
       ELSE UNCHANGED <<futures, next_future>>
    /\ Continue(pos)

\* data_uri = next_future.result(), then the pre-load of the next image; or
\* the except branch if the load raised.
Await ==
    /\ caption_pc = "await"
    /\ futures[next_future].state # "pending"
    /\ awaited' = Append(awaited, [pos |-> current, loads |-> futures[next_future].pos,
                                   state |-> futures[next_future].state])
    /\ IF futures[next_future].state = "failed"
       THEN /\ Except(current)
            /\ UNCHANGED data_uri
       ELSE /\ data_uri' = _load_image_as_data_uri(uncached[futures[next_future].pos].name)
            /\ IF current + 1 <= Len(uncached) /\ NextLoad(current) <= Len(uncached)
               THEN /\ futures' = Submit(NextLoad(current))
                    /\ next_future' = Len(futures) + 1
               ELSE UNCHANGED <<futures, next_future>>
            /\ caption_pc' = "caption"
            /\ UNCHANGED current
    /\ UNCHANGED <<beside_caption, images, uncached, caption_calls, new_captions, injections, events>>

\* caption = self.model.caption_image(data_uri), which returns or raises, and
\* what follows: the cache, new_captions and the progress event, or the
\* except branch.
Caption ==
    /\ caption_pc = "caption"
    /\ caption_calls' = Append(caption_calls, [pos |-> current, data |-> data_uri])
    /\ \/ /\ new_captions' = Append(new_captions, [pos |-> current, name |-> uncached[current].name,
                                                   caption |-> "caption of " \o data_uri])
          /\ events' = Append(events, Event("captioning_progress", "", Len(new_captions) + 1, Len(uncached)))
          /\ Continue(current)
          /\ UNCHANGED <<futures, next_future>>
       \/ /\ Except(current)
          /\ UNCHANGED <<new_captions, events>>
    /\ UNCHANGED <<beside_caption, images, uncached, awaited, data_uri, injections>>

\* After the loop: the executor is shut down, which waits for its loads; the
\* new captions are injected in one call, whose failure is logged; and the
\* final progress event is sent.
Finish ==
    /\ caption_pc = "finish"
    /\ \A k \in 1..Len(futures) : futures[k].state # "pending"
    /\ injections' = IF new_captions # <<>> THEN Append(injections, new_captions) ELSE injections
    /\ events' = Append(events, Event("captioning_progress", "complete", Len(uncached), Len(uncached)))
    /\ caption_pc' = "done"
    /\ UNCHANGED <<beside_caption, images, uncached, current, futures, next_future, awaited,
                   data_uri, caption_calls, new_captions>>

CaptionNext == FindImages \/ Load \/ Await \/ Caption \/ Finish

CaptionSpec == CaptionInit /\ [][CaptionNext]_vars

(***************************************************************************)
(* The NDJSON server (src/server.py): Server.run reads one request per     *)
(* line, Server.dispatch hands it to its handler and the response is       *)
(* printed.  A step is one line of input.  The collaborators of the        *)
(* handlers (the file system, the model loader, the index builder, the     *)
(* classes handle_init wires, the agents) are inputs of the step.          *)
(***************************************************************************)
MaxRequests == 3

\* The longest query handle_query admits.
MAX_QUERY_CHARS == 10000

RECURSIVE Repeat(_, _)
\* s * n
Repeat(s, n) ==
    IF n = 0 THEN ""
    ELSE IF n % 2 = 0 THEN LET half == Repeat(s, n \div 2) IN half \o half
    ELSE s \o Repeat(s, n - 1)

RECURSIVE Replace(_, _, _)
\* s.replace(c, d) for single characters c and d
Replace(s, c, d) ==
    IF s = "" THEN ""
    ELSE (IF Ch(s, 1) = c THEN d ELSE Ch(s, 1)) \o Replace(From(s, 2), c, d)

\* Path(path).name.replace(" ", "_").replace("/", "_")
make_dir_id(path) == Replace(Replace(PathName(path), " ", "_"), "/", "_")

\* chat.get_index_name: the same mapping, from the directory to its index.
get_index_name(path) == Replace(Replace(PathName(path), " ", "_"), "/", "_")

_SENSITIVE_DIRS == {"/etc", "/private/etc"}

_SENSITIVE_HOME_DIRS == {".ssh", ".gnupg", ".aws", ".config", ".local/share/keyrings",
                         "Library/Keychains"}

\* Path.home()
Home == "/home/u"

_is_sensitive_directory(path) ==
    \/ \E d \in _SENSITIVE_DIRS : path = d \/ StartsAt(path, d \o "/", 1)
    \/ \E d \in _SENSITIVE_HOME_DIRS :
          path = Home \o "/" \o d \/ StartsAt(path, Home \o "/" \o d \o "/", 1)

\* The fields of the server and the index directories on disk, as one value.
Fields ==
    [state |-> server_state, running |-> running, model |-> model_loaded,
     directories |-> directories, disk |-> disk]

\* What a handler hands back: a result, an error response, an exception
\* that dispatch catches (an Exception), or one that it does not
\* (SystemExit, or anything raised before its try block).
Result(data) == [kind |-> "result", data |-> data]

ErrorOut(message) == [kind |-> "error", data |-> message]

Raising(exc) == [kind |-> "raise", data |-> exc]

Escaping(exc) == [kind |-> "escape", data |-> exc]

\* The server after a handler, its outcome, what it did, and the exception
\* it raised if any.
After(srv, out, log) ==
    [srv |-> srv, out |-> out, effects |-> log,
     exc |-> IF out.kind \in {"raise", "escape"} THEN out.data ELSE ""]

Effect(op, on) == [op |-> op, on |-> on]

\* The entry handle_init stores; watcher is "running" for the kreuzberg
\* pipeline, whose entry holds watcher_stop and watcher_thread.
Entry(dir_id, path, index_name, watcher) ==
    [dir_id |-> dir_id, path |-> path, index_name |-> index_name, state |-> "ready",
     conversation_history |-> <<>>, watcher |-> watcher]

\* The position of dir_id in the dict, 0 if it is no key.
Position(dirs, dir_id) ==
    LET hits == {i \in DOMAIN dirs : dirs[i].dir_id = dir_id}
    IN  IF hits = {} THEN 0 ELSE CHOOSE i \in hits : TRUE

\* self.directories[dir_id] = entry: a known key keeps its position.
Store(dirs, entry) ==
    IF Position(dirs, entry.dir_id) = 0 THEN Append(dirs, entry)
    ELSE [dirs EXCEPT ![Position(dirs, entry.dir_id)] = entry]

\* self.directories.pop(dir_id)
Pop(dirs, dir_id) == SelectSeq(dirs, LAMBDA e : e.dir_id # dir_id)

\* The watcher of the entry is told to stop: stop_event.set() and join.
StopWatcher(entry) ==
    IF entry.watcher # "none" THEN <<Effect("stop_watcher", entry.dir_id)>> ELSE <<>>

Stopped(entry) == [entry EXCEPT !.watcher = IF @ = "none" THEN "none" ELSE "stopped"]

handle_ping(srv) == After(srv, Result(srv.state), <<>>)

\* index_name: the reused index, or the one build_index names.
InitIndexName(p) == IF Truthy(p.reuse) THEN p.reuse.s ELSE get_index_name(p.dataDir)

\* The watcher of the entry: one runs for the kreuzberg pipeline only.
WatcherOf(p) == IF p.pipeline = "kreuzberg" THEN "running" ELSE "none"

\* self.directories[dir_id] = {...} and, at the end, self.state = "ready"
Wired(srv, p, index_name) ==
    [srv EXCEPT !.directories = Store(@, Entry(make_dir_id(p.dataDir), p.dataDir, index_name,
                                                WatcherOf(p))),
                !.state = "ready"]

\* find_index_path for an index that is not on disk: it runs the leann
\* binary, which raises FileNotFoundError when it is missing, and then ends
\* the process with sys.exit(1).
NotFound(world) ==
    IF world.leann = "missing" THEN Raising("FileNotFoundError") ELSE Escaping("SystemExit")

\* handle_init from find_index_path on.  ToolBox(..., debug=...) raises
\* TypeError with the class of src/toolbox.py.  The summary and the
\* captioning run inside try blocks and change no state of the model.
Wire(srv, p, world, index_name, log) ==
    IF index_name \notin srv.disk THEN After(srv, NotFound(world), log)
    ELSE IF world.collaborators = "src" THEN After(srv, Raising("TypeError"), log)
    ELSE After(Wired(srv, p, index_name), Result("ready"),
               log \o (IF WatcherOf(p) = "running"
                       THEN <<Effect("start_watcher", make_dir_id(p.dataDir))>> ELSE <<>>))

\* handle_init from the index on: reuse, or build_index(data_dir_path,
\* pipeline=pipeline), a TypeError with the build_index of src/chat.py.
BuildAndWire(srv, p, world, index_name) ==
    IF Truthy(p.reuse) THEN Wire(srv, p, world, index_name, <<>>)
    ELSE IF world.collaborators = "src" THEN After(srv, Raising("TypeError"), <<>>)
    ELSE Wire([srv EXCEPT !.disk = @ \cup {index_name}], p, world, index_name,
              <<Effect("build_index", index_name)>>)

\* handle_init.  world.is_dir: dataDir is a directory; world.load: what
\* ModelManager.load does; world.collaborators: "src" for build_index and
\* ToolBox as src/chat.py and src/toolbox.py define them, which take no
\* pipeline and no debug argument, "patched" for the stand-ins of
\* src/tests/test_server.py, which take any.
handle_init(srv, p, world) ==
    IF ~world.is_dir
    THEN After(srv, ErrorOut("Not a directory: " \o p.dataDir), <<>>)
    ELSE IF _is_sensitive_directory(p.dataDir)
    THEN After(srv, ErrorOut("Cannot index sensitive system directory"), <<>>)
    ELSE IF ~srv.model /\ world.load = "raise"
    THEN After([srv EXCEPT !.model = TRUE], Raising("RuntimeError"), <<>>)
    ELSE BuildAndWire([srv EXCEPT !.model = TRUE], p, world, InitIndexName(p))

\* _delete_index_files.  find_index_path stands inside try/except
\* Exception: SystemExit passes it, FileNotFoundError does not.
\* world.rmtree: "deleted", "kept" when removing the index directory raises
\* (caught), and "cache_raises" when removing the .neurofind cache raises
\* (not caught).
_delete_index_files(srv, entry, world) ==
    IF entry.index_name \notin srv.disk /\ world.leann # "missing"
    THEN After(srv, Escaping("SystemExit"), <<>>)
    ELSE IF entry.index_name \notin srv.disk \/ world.rmtree = "kept"
    THEN After(srv, Result("ok"), <<>>)
    ELSE After([srv EXCEPT !.disk = @ \ {entry.index_name}],
               IF world.rmtree = "cache_raises" THEN Raising("OSError") ELSE Result("ok"),
               <<Effect("delete_index", entry.index_name)>>)

\* self.directories.get(dir_id) as a position, 0 for None.
Lookup(dirs, dir_id) == IF dir_id.t = "str" THEN Position(dirs, dir_id.s) ELSE 0

\* AfterDelete with the state reset on every removal.
AfterDeleteResetting(entry, del) ==
    IF del.out.kind # "result"
    THEN After(del.srv, del.out, StopWatcher(entry) \o del.effects)
    ELSE After([del.srv EXCEPT !.state = "not_initialized"], Result("ok"),
               StopWatcher(entry) \o del.effects)

\* handle_remove_directory after _delete_index_files: the state is reset
\* when no directory is left.
AfterDelete(entry, del) ==
    IF del.out.kind # "result"
    THEN After(del.srv, del.out, StopWatcher(entry) \o del.effects)
    ELSE After(IF del.srv.directories = <<>>
               THEN [del.srv EXCEPT !.state = "not_initialized"] ELSE del.srv,
               Result("ok"), StopWatcher(entry) \o del.effects)

\* handle_remove_directory for the entry at pos: pop, stop the watcher,
\* delete the index files.
RemoveAt(srv, p, world, pos) ==
    IF ~Truthy(p.directoryId) \/ pos = 0
    THEN After(srv, ErrorOut("Unknown directory: " \o Format(p.directoryId)), <<>>)
    ELSE AfterDelete(srv.directories[pos],
                     _delete_index_files([srv EXCEPT !.directories = Pop(@, p.directoryId.s)],
                                         srv.directories[pos], world))

handle_remove_directory(srv, p, world) ==
    RemoveAt(srv, p, world, Lookup(srv.directories, p.directoryId))

\* What handle_reindex returns: handle_init(req_id, {"dataDir": stored_path}),
\* so with the default pipeline and no reuse.
Reinit(entry, del, world) ==
    IF del.out.kind # "result"
    THEN After(del.srv, del.out, StopWatcher(entry) \o del.effects)
    ELSE [handle_init(del.srv, [NoParams EXCEPT !.dataDir = entry.path], world)
             EXCEPT !.effects = StopWatcher(entry) \o del.effects \o @]

\* handle_reindex for the entry at pos: stop the watcher, delete the index
\* files, initialise again.  The entry stays registered meanwhile.
ReindexAt(srv, p, world, pos) ==
    IF ~Truthy(p.directoryId) \/ pos = 0
    THEN After(srv, ErrorOut("Unknown directory: " \o Format(p.directoryId)), <<>>)
    ELSE Reinit(srv.directories[pos],
                _delete_index_files([srv EXCEPT !.directories[pos] = Stopped(@)],
                                    srv.directories[pos], world),
                world)

handle_reindex(srv, p, world) ==
    ReindexAt(srv, p, world, Lookup(srv.directories, p.directoryId))

RECURSIVE StopAll(_)
\* The watchers handle_shutdown tells to stop.
StopAll(dirs) == IF dirs = <<>> THEN <<>> ELSE StopWatcher(Head(dirs)) \o StopAll(Tail(dirs))

handle_shutdown(srv) ==
    After([srv EXCEPT !.running = FALSE,
                      !.directories = [i \in DOMAIN srv.directories |-> Stopped(srv.directories[i])]],
          Result("shutting_down"), StopAll(srv.directories))

\* What agent.run hands back: its answer, or the exception of a model or
\* a tool that raised.
Outcome(o) ==
    IF o = "RuntimeError" THEN [kind |-> "raise", exc |-> o] ELSE [kind |-> "ok", response |-> o]

\* RunAgent with a handler that appends the user's query before the run.
RunAgentRemembering(srv, pos, q, out, log) ==
    IF out.kind = "raise"
    THEN After([srv EXCEPT !.directories[pos].conversation_history =
                               Append(@, Message("user", PStr(q)))],
               Raising(out.exc), Append(log, Effect("run", srv.directories[pos].dir_id)))
    ELSE After([srv EXCEPT !.directories[pos].conversation_history =
                               Remember(@, q, out.response)],
               Result(out.response), Append(log, Effect("run", srv.directories[pos].dir_id)))

\* One agent.run and what follows it: the exception, or the two appends and
\* the cap on the history of the entry at pos.
RunAgent(srv, pos, q, out, log) ==
    IF out.kind = "raise"
    THEN After(srv, Raising(out.exc), Append(log, Effect("run", srv.directories[pos].dir_id)))
    ELSE After([srv EXCEPT !.directories[pos].conversation_history =
                               Remember(@, q, out.response)],
               Result(out.response), Append(log, Effect("run", srv.directories[pos].dir_id)))

RECURSIVE _query_all(_, _, _, _, _)
RECURSIVE NextDirectory(_, _, _, _)

\* _query_all from the entry at position i on: each ready directory in turn.
_query_all(srv, q, outs, i, log) ==
    IF i > Len(srv.directories) THEN After(srv, Result("results"), log)
    ELSE IF srv.directories[i].state # "ready" THEN _query_all(srv, q, outs, i + 1, log)
    ELSE NextDirectory(RunAgent(srv, i, q, Outcome(outs[srv.directories[i].dir_id]), log),
                       q, outs, i)

\* The run of the entry at i raised, or the loop goes on.
NextDirectory(ran, q, outs, i) ==
    IF ran.out.kind = "raise" THEN ran ELSE _query_all(ran.srv, q, outs, i + 1, ran.effects)

\* The positions of the ready entries, in the order of the dict.
ReadyPositions(dirs) == SelectSeq([i \in DOMAIN dirs |-> i], LAMBDA i : dirs[i].state = "ready")

\* handle_query without directoryId: the first ready directory.
FirstReady(srv, q, outs, ready) ==
    IF ready = <<>> THEN After(srv, ErrorOut("No ready directories"), <<>>)
    ELSE RunAgent(srv, ready[1], q, Outcome(outs[srv.directories[ready[1]].dir_id]), <<>>)

\* Chosen with an unknown directoryId falling back to the first ready
\* directory.
ChosenLenient(srv, p, q, outs, pos) ==
    IF pos = 0 THEN FirstReady(srv, q, outs, ReadyPositions(srv.directories))
    ELSE IF srv.directories[pos].state # "ready"
    THEN After(srv, ErrorOut("Directory not ready: " \o Format(p.directoryId)), <<>>)
    ELSE RunAgent(srv, pos, q, Outcome(outs[srv.directories[pos].dir_id]), <<>>)

\* handle_query with a directoryId: the entry at pos.
Chosen(srv, p, q, outs, pos) ==
    IF pos = 0
    THEN After(srv, ErrorOut("Unknown directory: " \o Format(p.directoryId)), <<>>)
    ELSE IF srv.directories[pos].state # "ready"
    THEN After(srv, ErrorOut("Directory not ready: " \o Format(p.directoryId)), <<>>)
    ELSE RunAgent(srv, pos, q, Outcome(outs[srv.directories[pos].dir_id]), <<>>)

\* handle_query from the stripped text on.
Resolve(srv, p, q, outs) ==
    IF q = "" THEN After(srv, ErrorOut("Empty query"), <<>>)
    ELSE IF Len(q) > MAX_QUERY_CHARS
    THEN After(srv, ErrorOut("Query too long (max 10000 chars)"), <<>>)
    ELSE IF p.searchAll THEN _query_all(srv, q, outs, 1, <<>>)
    ELSE IF p.directoryId.t = "none"
    THEN FirstReady(srv, q, outs, ReadyPositions(srv.directories))
    ELSE Chosen(srv, p, q, outs, Lookup(srv.directories, p.directoryId))

\* Server.handle_query, directory routing and all.  outs: what the agent of
\* each directory does when it is run.
handle_query_routed(srv, p, outs) ==
    IF srv.state # "ready" THEN After(srv, ErrorOut("Not initialized"), <<>>)
    ELSE Resolve(srv, p, Strip(p.text), outs)

\* The handlers that touch neither Server.state nor the directory entries
\* the model keeps (toggle_debug, list_indexes, getFileGraph, check_models,
\* download_models): a result, an error, or an exception.
OtherMethods == {"toggle_debug", "list_indexes", "getFileGraph", "check_models",
                 "download_models"}

OtherHandler(srv, world) ==
    After(srv,
          IF world.other = "result" THEN Result("ok")
          ELSE IF world.other = "error" THEN ErrorOut("Unknown directory: None")
          ELSE Raising("OSError"),
          <<>>)

\* handlers.get(method)(): the handler of the method, the error response
\* for a method that has none.
Handler(srv, m, req, world, outs) ==
    IF m = "ping" THEN handle_ping(srv)
    ELSE IF m = "init" THEN handle_init(srv, req.params, world)
    ELSE IF m = "query" THEN handle_query_routed(srv, req.params, outs)
    ELSE IF m = "shutdown" THEN handle_shutdown(srv)
    ELSE IF m = "remove_directory" THEN handle_remove_directory(srv, req.params, world)
    ELSE IF m = "reindex" THEN handle_reindex(srv, req.params, world)
    ELSE IF m \in OtherMethods THEN OtherHandler(srv, world)
    ELSE After(srv, ErrorOut("Unknown method: " \o m), <<>>)

\* except Exception: the error response for an Exception; SystemExit is
\* none and passes.
Caught(h) ==
    IF h.out.kind = "raise" THEN [h EXCEPT !.out = ErrorOut("Internal server error")] ELSE h

\* Server.dispatch.  handlers.get(method) stands before the try block, so a
\* method that is no hashable value raises out of dispatch.
dispatch(srv, req, world, outs) ==
    IF req.method.t # "str" THEN After(srv, Escaping("TypeError"), <<>>)
    ELSE Caught(Handler(srv, req.method.s, req, world, outs))

(***************************************************************************)
(* The requests and the collaborators of the model.                        *)
(***************************************************************************)
DataDirs == {"/a/docs", "/b/my notes", "/etc"}

\* The ids of the directories that handle_init admits.
DirIds == {make_dir_id(path) : path \in {d \in DataDirs : ~_is_sensitive_directory(d)}}

\* params["directoryId"]: absent (written ""), or a name
DirectoryIds == {"", "docs", "my_notes", "nope"}

\* The Python value of a parameter that may be absent.
Given(name) == IF name = "" THEN PNone ELSE PStr(name)

\* params["text"]: a query, a blank one, and one of 10001 characters
QueryTexts == {"  any macbook invoices ", "  ", Repeat("x", MAX_QUERY_CHARS + 1)}

\* An answer, and the name of an exception.
AgentOutcomes == {"You have 2 text files.", "RuntimeError"}

World(is_dir, load, collaborators, leann, rmtree, other) ==
    [is_dir |-> is_dir, load |-> load, collaborators |-> collaborators, leann |-> leann,
     rmtree |-> rmtree, other |-> other]

\* A world in which nothing fails, with the stand-ins of the tests.
Fair == World(TRUE, "ok", "patched", "exits", "deleted", "result")

\* No agent is run.
NoRuns == [d \in DirIds |-> "RuntimeError"]

\* A request; the client numbers its requests.
Request(method, params) == [id |-> PInt(handled + 1), method |-> method, params |-> params]

Reply(id, type, data) == [id |-> id, type |-> type, data |-> data]

beside_protocol == <<agent_state, search_state, lock_state, caption_state, indexer_state>>

\* One line of input that parse_request accepts: the dispatch, the printed
\* response, and the check of self.running.  An exception out of dispatch
\* ends run, and the process, with no response.
Respond(req, d) ==
    /\ server_state' = d.srv.state
    /\ running' = d.srv.running
    /\ model_loaded' = d.srv.model
    /\ directories' = d.srv.directories
    /\ disk' = d.srv.disk
    /\ effects' = d.effects
    /\ faulted' = (faulted \/ d.exc # "")
    /\ IF d.out.kind = "escape"
       THEN /\ loop' = "raised"
            /\ UNCHANGED <<reply, answered>>
       ELSE /\ reply' = Reply(req.id, d.out.kind, d.out.data)
            /\ answered' = answered + 1
            /\ loop' = IF d.srv.running THEN "reading" ELSE "ended"
    /\ request' = req
    /\ handled' = handled + 1
    /\ UNCHANGED beside_protocol

Serve(req, world, outs) ==
    /\ loop = "reading"
    /\ handled < MaxRequests
    /\ Respond(req, dispatch(Fields, req, world, outs))

ServePing == Serve(Request(PStr("ping"), NoParams), Fair, NoRuns)

ServeInit ==
    \E path \in DataDirs, pipeline \in {"leann", "kreuzberg"},
       reuse \in {"", "docs"}, is_dir \in BOOLEAN, load \in {"ok", "raise"},
       collaborators \in {"src", "patched"}, leann \in {"exits", "missing"} :
        Serve(Request(PStr("init"),
                      [NoParams EXCEPT !.dataDir = path, !.pipeline = pipeline, !.reuse = Given(reuse)]),
              World(is_dir, load, collaborators, leann, "deleted", "result"), NoRuns)

ServeQuery ==
    \E text \in QueryTexts, all \in BOOLEAN, dir_id \in DirectoryIds,
       outs \in [DirIds -> AgentOutcomes] :
        Serve(Request(PStr("query"),
                      [NoParams EXCEPT !.text = text, !.searchAll = all, !.directoryId = Given(dir_id)]),
              Fair, outs)

ServeRemoveDirectory ==
    \E dir_id \in DirectoryIds, rmtree \in {"deleted", "kept", "cache_raises"},
       leann \in {"exits", "missing"} :
        Serve(Request(PStr("remove_directory"), [NoParams EXCEPT !.directoryId = Given(dir_id)]),
              World(TRUE, "ok", "patched", leann, rmtree, "result"), NoRuns)

ServeReindex ==
    \E dir_id \in DirectoryIds, rmtree \in {"deleted", "kept", "cache_raises"},
       is_dir \in BOOLEAN, collaborators \in {"src", "patched"}, leann \in {"exits", "missing"} :
        Serve(Request(PStr("reindex"), [NoParams EXCEPT !.directoryId = Given(dir_id)]),
              World(is_dir, "ok", collaborators, leann, rmtree, "result"), NoRuns)

ServeShutdown == Serve(Request(PStr("shutdown"), NoParams), Fair, NoRuns)

ServeOther ==
    \E m \in OtherMethods, other \in {"result", "error", "raise"} :
        Serve(Request(PStr(m), NoParams), World(TRUE, "ok", "patched", "exits", "deleted", other), NoRuns)

\* A method no handler is registered for: a name, or a JSON array.
ServeUnknown ==
    \E m \in {"nonexistent", "[]"} :
        Serve(Request(IF m = "[]" THEN PList(<<>>) ELSE PStr(m), NoParams), Fair, NoRuns)

\* A line parse_request rejects: send(None, "error", ...) and on to the next.
InvalidLine ==
    /\ loop = "reading"
    /\ reply # Reply(PNone, "error", "Invalid JSON")
    /\ reply' = Reply(PNone, "error", "Invalid JSON")
    /\ request' = NoRequest
    /\ effects' = <<>>
    /\ UNCHANGED <<server_state, running, model_loaded, directories, disk, loop, handled,
                   answered, faulted, beside_protocol>>

\* The input stream ends.
EndOfInput ==
    /\ loop = "reading"
    /\ loop' = "ended"
    /\ UNCHANGED <<server_state, running, model_loaded, directories, disk, request, reply,
                   handled, answered, effects, faulted, beside_protocol>>

\* Server() before its first request, no index on disk.
ProtocolInit ==
    /\ AgentIdle
    /\ query = ""
    /\ root = [name |-> "a", files |-> <<>>]
    /\ SearchIdle
    /\ LockIdle
    /\ CaptionIdle
    /\ IndexerIdle
    /\ server_state = "not_initialized"
    /\ running = TRUE
    /\ model_loaded = FALSE
    /\ directories = <<>>
    /\ disk = {}
    /\ loop = "reading"
    /\ request = NoRequest
    /\ reply = NoReply
    /\ handled = 0
    /\ answered = 0
    /\ effects = <<>>
    /\ faulted = FALSE

ProtocolNext ==
    \/ ServePing
    \/ ServeInit
    \/ ServeQuery
    \/ ServeRemoveDirectory
    \/ ServeReindex
    \/ ServeShutdown
    \/ ServeOther
    \/ ServeUnknown
    \/ InvalidLine
    \/ EndOfInput

ProtocolSpec == ProtocolInit /\ [][ProtocolNext]_vars

(***************************************************************************)
(* The kreuzberg indexer (src/indexer.py): build, incremental_update and   *)
(* extract_and_append_file over one data directory, whose files come, go   *)
(* and change between the calls.                                           *)
(***************************************************************************)
MaxMtime == 2

\* detect_mime_type_from_path, by the extension
Mime(name) ==
    IF Suffix(name) = ".txt" THEN "text/plain"
    ELSE IF Suffix(name) = ".png" THEN "image/png"
    ELSE "application/pdf"

SKIP_MIME_PREFIXES == {"image/"}

\* not any(mime.startswith(p) for p in self.SKIP_MIME_PREFIXES)
Supported(name) == \A prefix \in SKIP_MIME_PREFIXES : Find(Mime(name), prefix, 1) # 1

\* extract_file_sync: the number of chunks of the file, or the exception.
\* scan: what the extraction of scan.pdf does, "raise" or "empty".
Extraction(name, scan) ==
    IF name = "notes.txt" THEN [kind |-> "ok", chunks |-> 1]
    ELSE IF name = "report.pdf" THEN [kind |-> "ok", chunks |-> 2]
    ELSE IF scan = "raise" THEN [kind |-> "raise", chunks |-> 0]
    ELSE [kind |-> "ok", chunks |-> 0]

\* The files of the directory, sorted.
Present(mtimes) == SelectSeq(FileNames, LAMBDA n : mtimes[n] > 0)

FileRecord(path, mtime, n_chunks) == [path |-> path, mtime |-> mtime, chunks |-> n_chunks]

\* file_records[rel_path] = {...}: a dict keeps the place of a key it has.
Recorded(recs, rec) ==
    IF \E i \in DOMAIN recs : recs[i].path = rec.path
    THEN [i \in DOMAIN recs |-> IF recs[i].path = rec.path THEN rec ELSE recs[i]]
    ELSE Append(recs, rec)

\* The locals of the extraction loops before the first file.
Extracting(file_records) == [total_chunks |-> 0, file_records |-> file_records, log |-> <<>>]

\* The body of the loops after extract_file_sync handed back x for the file
\* name of mtime t: an exception and an empty result leave no record.
Added(st, name, t, x) ==
    IF x.kind = "raise" \/ x.chunks = 0
    THEN [st EXCEPT !.log = Append(@, Effect("extract", name))]
    ELSE [total_chunks |-> st.total_chunks + x.chunks,
          file_records |-> Recorded(st.file_records, FileRecord(name, t, x.chunks)),
          log          |-> Append(st.log, Effect("extract", name))]

RECURSIVE BuildLoop(_, _, _, _)
\* The loop of build over the files of the directory.
BuildLoop(paths, mtimes, scan, st) ==
    IF paths = <<>> THEN st
    ELSE IF ~Supported(Head(paths)) THEN BuildLoop(Tail(paths), mtimes, scan, st)
    ELSE BuildLoop(Tail(paths), mtimes, scan,
                   Added(st, Head(paths), mtimes[Head(paths)], Extraction(Head(paths), scan)))

RECURSIVE AppendLoop(_, _, _, _)
\* The loop of _extract_and_append over files_to_process.
AppendLoop(paths, mtimes, scan, st) ==
    IF paths = <<>> THEN st
    ELSE AppendLoop(Tail(paths), mtimes, scan,
                    Added(st, Head(paths), mtimes[Head(paths)], Extraction(Head(paths), scan)))

\* The index before a call: the meta file, the manifest, and nothing done.
Index == [index_meta |-> index_meta, manifest |-> manifest_json, log |-> <<>>,
          outcome |-> "returned"]

\* _write_manifest and _read_manifest: json.dumps and json.loads of a dict
\* of strings, numbers and dicts hand back an equal dict.
Manifest(file_records) == [version |-> 1, files |-> file_records]

\* manifest["files"] if manifest else {}
ExistingFiles(ix) == IF ix.manifest = <<>> THEN <<>> ELSE ix.manifest[1].files

\* The end of build: the RuntimeError for no chunk, else build_index and
\* then _write_manifest.
Rebuilt(ix, st) ==
    IF st.total_chunks = 0
    THEN [ix EXCEPT !.log = st.log, !.outcome = "RuntimeError"]
    ELSE [index_meta |-> TRUE, manifest |-> <<Manifest(st.file_records)>>,
          log |-> st.log \o <<Effect("build_index", ""), Effect("write_manifest", "")>>,
          outcome |-> "returned"]

\* The end of _extract_and_append, update_index if a chunk was added, and
\* the _write_manifest that follows it in its callers.
Appended(ix, st) ==
    [ix EXCEPT !.manifest = <<Manifest(st.file_records)>>,
               !.log = st.log \o (IF st.total_chunks > 0
                                  THEN <<Effect("update_index", "")>> ELSE <<>>)
                              \o <<Effect("write_manifest", "")>>]

\* Unchanged without the comparison of the mtimes.
UnchangedIfListed(recs, name, t) == \E i \in DOMAIN recs : recs[i].path = name

\* rel_path in existing_files and existing_files[rel_path]["mtime"] == current_mtime
Unchanged(recs, name, t) ==
    \E i \in DOMAIN recs : recs[i].path = name /\ recs[i].mtime = t

\* files_to_process
FilesToProcess(mtimes, recs) ==
    SelectSeq(Present(mtimes), LAMBDA n : Supported(n) /\ ~Unchanged(recs, n, mtimes[n]))

\* if files_to_process: ...
Update(ix, mtimes, scan, todo) ==
    IF todo = <<>> THEN ix
    ELSE Appended(ix, AppendLoop(todo, mtimes, scan, Extracting(ExistingFiles(ix))))

incremental_update(ix, mtimes, scan) ==
    Update(ix, mtimes, scan, FilesToProcess(mtimes, ExistingFiles(ix)))

\* extract_and_append_file, the entry point of the watcher.
extract_and_append_file(ix, name, mtimes, scan) ==
    Appended(ix, AppendLoop(<<name>>, mtimes, scan, Extracting(ExistingFiles(ix))))

\* build with a full rebuild also for an index that has a manifest.
build_rebuilding(ix, force, mtimes, scan) ==
    IF ~force /\ ix.index_meta /\ ix.manifest = <<>> THEN ix
    ELSE Rebuilt(ix, BuildLoop(Present(mtimes), mtimes, scan, Extracting(<<>>)))

\* KreuzbergIndexer.build
build(ix, force, mtimes, scan) ==
    IF ~force /\ ix.index_meta
    THEN IF ix.manifest # <<>> THEN incremental_update(ix, mtimes, scan) ELSE ix
    ELSE Rebuilt(ix, BuildLoop(Present(mtimes), mtimes, scan, Extracting(<<>>)))

beside_indexer == <<agent_state, search_state, lock_state, caption_state, protocol_state>>

\* The state after a call that left r.
Settle(r, call, force) ==
    /\ index_meta' = r.index_meta
    /\ manifest_json' = r.manifest
    /\ indexer_calls' = r.log
    /\ invoked' = [call |-> call, force |-> force, outcome |-> r.outcome]
    /\ UNCHANGED <<data_dir, beside_indexer>>

Build ==
    \E force \in BOOLEAN, scan \in {"raise", "empty"} :
        Settle(build(Index, force, data_dir, scan), "build", force)

IncrementalUpdate ==
    /\ index_meta
    /\ \E scan \in {"raise", "empty"} :
          Settle(incremental_update(Index, data_dir, scan), "incremental_update", FALSE)

\* The watcher saw a supported file of the directory change.
ExtractAndAppendFile ==
    /\ index_meta
    /\ \E i \in DOMAIN FileNames, scan \in {"raise", "empty"} :
          /\ data_dir[FileNames[i]] > 0
          /\ Supported(FileNames[i])
          /\ Settle(extract_and_append_file(Index, FileNames[i], data_dir, scan),
                    "extract_and_append_file", FALSE)

\* A file of the directory is written, or deleted, between two calls.
Touch ==
    \E i \in DOMAIN FileNames, t \in 0..MaxMtime :
        /\ t # data_dir[FileNames[i]]
        /\ data_dir' = [data_dir EXCEPT ![FileNames[i]] = t]
        /\ indexer_calls' = <<>>
        /\ invoked' = NotInvoked
        /\ UNCHANGED <<index_meta, manifest_json, beside_indexer>>

\* An empty directory, with no index or with one the leann command built,
\* which writes no manifest.
IndexerInit ==
    /\ AgentIdle
    /\ query = ""
    /\ root = [name |-> "a", files |-> <<>>]
    /\ SearchIdle
    /\ LockIdle
    /\ CaptionIdle
    /\ ProtocolIdle
    /\ data_dir = [n \in {FileNames[i] : i \in DOMAIN FileNames} |-> 0]
    /\ index_meta \in BOOLEAN
    /\ manifest_json = <<>>
    /\ indexer_calls = <<>>
    /\ invoked = NotInvoked

IndexerNext ==
    \/ Build
    \/ IncrementalUpdate
    \/ ExtractAndAppendFile
    \/ Touch

IndexerSpec == IndexerInit /\ [][IndexerNext]_vars

(***************************************************************************)
(* Properties of the agent loop.                                           *)
(***************************************************************************)
Finished == pc \in {"done", "raised"}

\* What is left of a run: it falls with every step the run takes.
Fuel ==
    IF Finished THEN 0
    ELSE IF pc = "start" THEN 2 * MAX_STEPS + 3
    ELSE IF pc = "final" THEN 1
    ELSE 2 * (MAX_STEPS - step) + (IF pc = "generate" THEN 2 ELSE 1)

\* A run that has not ended can take its next step.
CanProceed ==
    \/ pc = "start"
    \/ pc = "generate" /\ step < MAX_STEPS
    \/ pc = "handle" /\ tool_call.kind \in {"call", "none", "raise"}
    \/ pc = "final" /\ step = MAX_STEPS

\* C1: every run of Agent.run ends (by a return or an exception): while it has
\* not ended it can proceed, and every step uses up fuel, of which there is a
\* fixed amount.  At no time has it made more than MAX_STEPS + 1 calls of
\* model.generate: at most one in each of the MAX_STEPS steps and at most one
\* forced final call.
C1_BoundedModelCalls ==
    /\ [](/\ generate_calls <= MAX_STEPS + 1
          /\ generate_calls <= step + 1
          /\ step <= MAX_STEPS
          /\ Fuel \in 0..(2 * MAX_STEPS + 3)
          /\ Finished \/ CanProceed)
    /\ [][Fuel' < Fuel]_vars

\* A run that used every step and the forced final call: six calls.
C1_Witness == pc = "done" /\ generate_calls = MAX_STEPS + 1 /\ step = MAX_STEPS

\* The sources of the dispatches of the run so far, in the order they came in.
RECURSIVE Accumulated(_)
Accumulated(log) ==
    IF log = <<>> THEN <<>>
    ELSE Accumulated(SubSeq(log, 1, Len(log) - 1))
            \o (IF log[Len(log)].ret.kind = "pair" THEN log[Len(log)].ret.sources
                ELSE <<Ch(log[Len(log)].ret.text, 2)>>)

\* The place of the first appearance of v in seq.
FirstIndex(seq, v) == Min({i \in 1..Len(seq) : seq[i] = v})

\* C2: whenever the run has returned, the returned sources have no duplicates,
\* are exactly the distinct sources accumulated from all dispatches of the run
\* (none removed before the return), and stand in order of first appearance.
C2_SourcesDeduplicated ==
    pc = "done" =>
        /\ all_sources = Accumulated(executed)
        /\ \A i, j \in 1..Len(sources) : i # j => sources[i] # sources[j]
        /\ Range(sources) = Range(all_sources)
        /\ \A i, j \in 1..Len(sources) :
              i < j => FirstIndex(all_sources, sources[i]) < FirstIndex(all_sources, sources[j])

\* A return after two semantic searches whose sources repeat, where first-seen
\* order differs from sorted order.
C2_Witness ==
    /\ pc = "done"
    /\ Len(all_sources) > Len(sources)
    /\ sources = <<"notes.txt", "budget.pdf">>

\* C10: the messages passed to the first call of model.generate are the system
\* prompt, then the last four messages of the history in their order (all of
\* them when there are fewer), then one user message with the resolved query
\* (the query itself when there is no rewriter); nothing older is admitted.
C10_InitialMessages ==
    model_calls # <<>> =>
        LET sent  == model_calls[1].messages
            n     == Min({4, Len(history)})
        IN  /\ Len(sent) = n + 2
            /\ sent[1] = Message("system", PStr(SYSTEM_PROMPT))
            /\ \A i \in 1..n : sent[1 + i] = history[Len(history) - n + i]
            /\ sent[n + 2].role = "user"
            /\ sent[n + 2].content =
                  (IF has_rewriter THEN rewritten.resolved_query ELSE PStr(query))

\* A first call with a history of more than four messages and a rewritten query.
C10_Witness ==
    /\ model_calls # <<>>
    /\ Len(history) > 4
    /\ has_rewriter
    /\ rewritten.resolved_query # PStr(query)

Last(seq) == seq[Len(seq)]

RespondCalled == pc = "handle" /\ tool_call.kind = "call" /\ tool_call.name = PStr("respond")

C4_RouterFallbackContinues ==
    [][(pc = "handle" /\ step = 0 /\ tool_call.kind = "none") =>
          /\ pc' = "generate"
          /\ step' = 1
          /\ Len(executed') = 1
          /\ Last(executed').via = "router"
          /\ Len(messages') = Len(messages) + 2
          /\ messages'[Len(messages) + 1] = Message("assistant", PStr(raw))
          /\ messages'[Len(messages) + 2].role = "tool"]_vars

\* The tool messages of the conversation that name the tool.
ToolMessagesNaming(tool) ==
    {i \in 1..Len(messages) :
        /\ messages[i].role = "tool"
        /\ Contains(messages[i].content.s, "{\"tool\": \"" \o tool \o "\"")}

\* The dispatches of the run that the follow-up check proposed.
Followups(tool) ==
    {k \in 1..Len(executed) : executed[k].via = "followup" /\ executed[k].tool = PStr(tool)}

\* C5: in one run the follow-up check proposes semantic_search at most once
\* and grep_files at most once, and no other tool: whenever it proposes a
\* tool, it has not proposed that tool before in the run and no tool message
\* of the conversation names that tool.
C5_FollowupOncePerTool ==
    [][(Len(executed') = Len(executed) + 1 /\ Last(executed').via = "followup") =>
          /\ Last(executed').tool \in {PStr("semantic_search"), PStr("grep_files")}
          /\ Followups(Last(executed').tool.s) = {}
          /\ ToolMessagesNaming(Last(executed').tool.s) = {}]_vars

\* A run in which the check proposed semantic_search and later grep_files.
C5_Witness ==
    /\ Followups("semantic_search") # {}
    /\ Followups("grep_files") # {}

\* What the follow-up check does with the uncovered keywords.
Proposes(missing) ==
    IF ToolMessagesNaming("semantic_search") = {}
    THEN /\ Len(executed') = Len(executed) + 1
         /\ Last(executed').via = "followup"
         /\ Last(executed').tool = PStr("semantic_search")
         /\ Last(executed').params = DictOf(<< <<"query", PStr(Join(" ", missing))>> >>)
    ELSE IF ToolMessagesNaming("grep_files") = {}
    THEN /\ Len(executed') = Len(executed) + 1
         /\ Last(executed').via = "followup"
         /\ Last(executed').tool = PStr("grep_files")
         /\ Last(executed').params = DictOf(<< <<"pattern", PStr(missing[1])>> >>)
    ELSE /\ executed' = executed
         /\ pc' = "done"
         /\ answer' = PStr(raw)

\* C6: when the model answers in plain text at a step after the first and a
\* keyword of the query is uncovered, the check proposes semantic_search with
\* the uncovered keywords as the query if no tool message names
\* semantic_search; grep_files with the first uncovered keyword as the pattern
\* only if one names semantic_search and none names grep_files; and nothing,
\* the text being returned, if both are named.
C6_FollowupOrder ==
    [][(pc = "handle" /\ tool_call.kind = "none" /\ step > 0 /\ Missing(query, messages) # <<>>)
          => Proposes(Missing(query, messages))]_vars

\* Both secondary tools used, a keyword still uncovered, and the text returned.
C6_Witness ==
    /\ pc = "done"
    /\ ToolMessagesNaming("semantic_search") # {}
    /\ ToolMessagesNaming("grep_files") # {}
    /\ Missing(query, messages) # <<>>
    /\ answer = PStr(raw)

FinalInstruction == Message("user", PStr(FINAL_INSTRUCTION))

\* C7: when all MAX_STEPS steps ended in a dispatch, the run appends the
\* final instruction once, calls the model once more with it, and returns the
\* text of that call as it is: the text is not parsed and nothing is
\* dispatched after it.
C7_ForcedSynthesisVerbatim ==
    /\ [](step = MAX_STEPS => pc \in {"final", "done"} /\ Len(executed) = MAX_STEPS)
    /\ [][pc = "final" =>
            /\ pc' = "done"
            /\ messages' = Append(messages, FinalInstruction)
            /\ model_calls' = Append(model_calls, ModelCall(messages', Last(model_calls').text))
            /\ answer' = PStr(Last(model_calls').text)
            /\ UNCHANGED <<executed, notified, tool_call, step>>]_vars
    /\ [](pc = "done" /\ step = MAX_STEPS =>
            Cardinality({i \in 1..Len(messages) : messages[i] = FinalInstruction}) = 1)

\* A forced answer that looks like a call of respond, returned as it is.
C7_Witness ==
    /\ pc = "done"
    /\ step = MAX_STEPS
    /\ generate_calls = MAX_STEPS + 1
    /\ answer = PStr("<|tool_call_start|>respond(answer=\"You have 2 text files.\")<|tool_call_end|>")

\* The tool of the dispatch is one the registry does not know.
UnknownTool(e) == e.tool.t # "str" \/ e.tool.s \notin Handlers

\* C8: the dispatch of a tool the registry does not know does not end the
\* run: the Unknown tool result is appended as a tool message and the loop
\* goes on.
C8_UnknownToolContinues ==
    (executed # <<>> /\ UnknownTool(Last(executed))) =>
        /\ pc # "raised"
        /\ \E i \in 1..Len(messages) :
              /\ messages[i].role = "tool"
              /\ Contains(messages[i].content.s, "Unknown tool")

\* C9: every dispatch through execute returns a pair (text, sources), for a
\* known tool as for an unknown one, and the sources are empty unless the tool
\* is semantic_search.
C9_ExecuteReturnsPair ==
    \A k \in 1..Len(executed) :
        /\ executed[k].ret.kind = "pair"
        /\ executed[k].tool # PStr("semantic_search") => executed[k].ret.sources = <<>>

\* C12: within a run the message list only grows at its end, no message
\* removed, reordered or rewritten, and each tool dispatch appends exactly two
\* messages: the assistant message with the raw response, then the tool
\* message with the JSON-encoded tool and result.
C12_AppendOnlyTwoPerDispatch ==
    [][/\ Len(messages') >= Len(messages)
       /\ SubSeq(messages', 1, Len(messages)) = messages
       /\ executed' # executed =>
             LET e == Last(executed')
                 un == Unpack(e.ret)
             IN  /\ un.ok
                 /\ messages' = messages \o
                       <<Message("assistant", PStr(raw)),
                         Message("tool", PStr(JsonDumpsToolMessage(e.tool, un.result)))>>]_vars

(***************************************************************************)
(* Properties of the server's conversation history.                        *)
(***************************************************************************)
\* C11: the stored history never holds more than 10 entries, and a query
\* that succeeds leaves the history ending with the user entry of that query
\* and the assistant entry of its answer, preceded by the most recent
\* entries of the history before it, in their order, nothing else dropped.
C11_HistoryCappedAtTen ==
    /\ [](Len(history) <= 10)
    /\ [][served' = served + 1 =>
            LET n == Len(history')
                kept == n - 2
            IN  /\ n = (IF Len(history) + 2 > 10 THEN 10 ELSE Len(history) + 2)
                /\ history'[n - 1] = Message("user", PStr(query'))
                /\ history'[n] = Message("assistant", answer')
                /\ \A i \in 1..kept : history'[i] = history[Len(history) - kept + i]]_vars

\* A sixth successful query on a full history.
C11_Witness == served > 5 /\ Len(history) = 10 /\ error = ""

(***************************************************************************)
(* Properties of the tool-call extractor.                                  *)
(***************************************************************************)
\* C13: for every response the extractor returns a well-formed call, its
\* name a string and its params a map, or no call; it never raises, not even
\* on a response that is valid JSON but no object.
C13_ExtractorNeverRaises ==
    pc = "extracted" =>
        /\ tool_call.kind \in {"call", "none"}
        /\ tool_call.kind = "call" => tool_call.name.t = "str" /\ tool_call.params.t = "dict"

\* got is what the highest-priority format that yields a call gives, and no
\* call only when no format yields one.
HighestPriority(native, json, bracket, bare, got) ==
    /\ native.kind = "call" => got = native
    /\ native.kind # "call" /\ json.kind = "call" => got = json
    /\ native.kind # "call" /\ json.kind = "none" /\ bracket.kind = "call" => got = bracket
    /\ native.kind # "call" /\ json.kind = "none" /\ bracket.kind # "call" => got = bare
    /\ got.kind = "none" => {native.kind, json.kind, bracket.kind, bare.kind} = {"none"}

\* C14: the extractor tries the sentinel-delimited native call, the JSON
\* object with a name key, the bracket-wrapped call and the bare call of a
\* known tool in this order, and returns the call of the first format that
\* yields one.
C14_ExtractorPriority ==
    pc = "extracted" =>
        HighestPriority(SpanCall(NativeSpan(raw), "native"), JsonCall(parse_json(raw)),
                        SpanCall(BracketSpan(raw), "bracket"), SpanCall(BareSpan(raw), "bare"),
                        tool_call)

\* A response holding a JSON call, a bracket-wrapped call of an unknown tool
\* and a native call whose text is no call: the JSON call is returned.
C14_Witness ==
    /\ pc = "extracted"
    /\ raw = "<|tool_call_start|>oops<|tool_call_end|> {\"name\": \"count_files\"} [grep_files()]"
    /\ tool_call = Call(PStr("count_files"), EmptyDict, "json")

(***************************************************************************)
(* Properties of the fallback router.                                      *)
(***************************************************************************)
\* The keywords route looks for in a query to leave the default.
RoutingKeywords ==
    {"space", "biggest", "largest", "storage", "heavy", "disk usage", "most", "least", "fewest",
     "folder", "tree", "directory", "structure", "file size", "how big", "how large", "how old",
     "when was", "modified", "created"}

\* The router chose semantic_search with the query as it was asked.
SearchesFor(choice, q) ==
    /\ choice.tool = "semantic_search"
    /\ DOMAIN choice.params.m = {"query"}
    /\ choice.params.m["query"] = PStr(q)

\* The router chose a tool of the registry, with a parameter map.
ValidChoice(choice) == choice.tool \in Handlers /\ choice.params.t = "dict"

RouterDispatches == {k \in 1..Len(executed) : executed[k].via = "router"}

Unparseable(text) ==
    /\ ~JsonLoads(Strip(text)).ok
    /\ ~Braces(text, Find(text, "{", 1)).ok

\* C17: when the model's rewrite output cannot be parsed as JSON, rewrite
\* returns exactly intent factual with the raw query as search_query and as
\* resolved_query.
C17_RewriteFallback ==
    (pc = "rewritten" /\ Unparseable(raw)) =>
        rewritten = [kind |-> "ok", intent |-> PStr("factual"),
                     search_query |-> PStr(query), resolved_query |-> PStr(query)]

\* A rewrite whose model output is the start of an object, cut off.
C17_Witness ==
    /\ pc = "rewritten"
    /\ raw = "{\"intent\": \"count\", \"search_query\": \"pdf"
    /\ rewritten.kind = "ok"
    /\ rewritten.search_query = PStr(query)

\* C18: rewrite never raises: whatever text the model returns, JSON that is
\* no object included, a result is returned.
C18_RewriteNeverRaises == pc = "rewritten" => rewritten.kind = "ok"

\* What the model's object holds under key; None when it holds no such key.
ModelValue(p, key) == IF p.t = "dict" THEN Get(p, key, PNone) ELSE PNone

\* The result keeps a valid intent of the model and makes any other factual;
\* it keeps a non-empty query of the model and puts the raw query otherwise.
Normalised(result, p) ==
    /\ result.intent \in {PStr(i) : i \in {"factual", "count", "list", "compare", "summarize", "metadata"}}
    /\ result.intent # PStr("factual") => result.intent = ModelValue(p, "intent")
    /\ \A key \in {"search_query", "resolved_query"} :
          /\ Truthy(result[key])
          /\ result[key] = (IF Truthy(ModelValue(p, key)) THEN ModelValue(p, key) ELSE PStr(query))

\* C19: every result rewrite returns has an intent of the fixed set, any
\* other or missing intent having become factual, and a non-empty
\* search_query and resolved_query, each the raw query when the model's
\* value is empty or missing.
C19_RewriteNormalised ==
    (pc = "rewritten" /\ rewritten.kind = "ok") => Normalised(rewritten, parse_json(raw))

\* An object with an unknown intent and an empty search_query.
C19_Witness ==
    /\ pc = "rewritten"
    /\ raw = "Sure: {\"intent\": \"poetry\", \"search_query\": \"\", \"resolved_query\": \"all invoices\"} done"
    /\ rewritten = [kind |-> "ok", intent |-> PStr("factual"),
                     search_query |-> PStr(query), resolved_query |-> PStr("all invoices")]

\* C20: parse_json never raises and returns a JSON object or None, None
\* being what a text without parseable object yields.
C20_ParseJsonObjectOrNone == pc = "parsed" => parsed.t \in {"dict", "none"}


(***************************************************************************)
(* Properties of the searcher.                                             *)
(***************************************************************************)
\* search_and_extract has ended, by a return or by an exception.
SearchEnded == search_pc \in {"done", "raised"}

\* Whether the chunk at position k of the retrieval passes the pre-filter.
Survives(k) == Len(retrieved) = 1 \/ retrieved[k].score * 100 >= retrieved[1].score * 85

\* The number of calls of _extract_facts, each one model call, made for id.
CallsFor(id) == Cardinality({j \in 1..Len(extractions) : extractions[j].id = id})

\* C21: when retrieval returns chunks, the chunks mapped are those whose score
\* is not below 0.85 times the first chunk's, the first chunk among them, and
\* with a single chunk no filtering is applied; when search_and_extract ends,
\* exactly one model call was issued per surviving chunk and none for a
\* dropped one.
C21_ScorePrefilter ==
    (SearchEnded /\ retrieved # <<>>) =>
        /\ chunks = SelectSeq(retrieved, LAMBDA c : \E k \in 1..Len(retrieved) : retrieved[k] = c /\ Survives(k))
        /\ chunks[1] = retrieved[1]
        /\ Len(retrieved) = 1 => chunks = retrieved
        /\ \A k \in 1..Len(retrieved) : CallsFor(retrieved[k].id) = IF Survives(k) THEN 1 ELSE 0

\* _filename_fallback was called.
FallbackRan == fallback_calls > 0

\* The files the fallback read whose text could be used.
ReadableRead == {k \in 1..Len(read_calls) :
                    \E f \in Range(root.files) : f.name = read_calls[k] /\ ~Skipped(read(f))}

\* What the output shows first for the file named name: its first extracted
\* fact, or the placeholder.
ShownFor(name) ==
    LET calls == {j \in 1..Len(extractions) : extractions[j].id = name}
    IN  IF \E j \in calls : extractions[j].facts # <<>>
        THEN extractions[CHOOSE j \in calls : extractions[j].facts # <<>>].facts[1]
        ELSE "File found: " \o name

\* C22: the filename fallback runs only when the map over the chunks grouped
\* no facts and both a file reader and a toolbox are configured; it reads at
\* most 3 files; and when search_and_extract ends, every file it read whose
\* text could be used is in the output, with its extracted facts or else with
\* the placeholder "File found: <name>".
C22_FilenameFallback ==
    /\ FallbackRan =>
           /\ has_file_reader /\ has_toolbox
           /\ \A k \in 1..Len(retrieved) : \A j \in 1..Len(extractions) :
                  extractions[j].id = retrieved[k].id => extractions[j].facts = <<>>
    /\ Len(read_calls) <= 3
    /\ (SearchEnded /\ FallbackRan) =>
           \A k \in ReadableRead :
               /\ returned.kind = "str"
               /\ Contains(returned.text, "From " \o read_calls[k] \o ":\n  - " \o ShownFor(read_calls[k]))

\* The map over the chunks grouped no facts.
NoChunkFacts ==
    \A k \in 1..Len(retrieved) : \A j \in 1..Len(extractions) :
        extractions[j].id = retrieved[k].id => extractions[j].facts = <<>>

C24_InferenceSerialized ==
    /\ \A t, u \in Threads : (Inside(t) /\ Inside(u)) => t = u
    /\ \A t \in Threads : Inside(t) => locks["ModelManager"] = t
    /\ (\A t \in Threads : ~Inside(t)) => locks["ModelManager"] = "free"

\* A call raised, and a later call through another manager is inside while a
\* third thread waits for the lock.
C24_Witness ==
    \E k \in 1..Len(finished), t, u \in Threads :
        /\ finished[k].outcome = "raised"
        /\ Inside(t)
        /\ callers[t].manager # finished[k].manager
        /\ callers[u].at = "waiting"
        /\ callers[u].manager # callers[t].manager

(***************************************************************************)
(* Properties of the image captioner.                                      *)
(***************************************************************************)
\* C25: the data passed to caption_image for the i-th uncached image is the
\* data loaded from that image, whatever failed before; the captions are
\* collected in input order, each with its own image; and no load is
\* submitted for an image more than one ahead of the image being captioned.
C25_PrefetchKeepsOrder ==
    /\ \A j \in 1..Len(caption_calls) :
           caption_calls[j].data = _load_image_as_data_uri(uncached[caption_calls[j].pos].name)
    /\ \A j \in 1..Len(awaited) : awaited[j].loads = awaited[j].pos
    /\ \A j \in 1..Len(new_captions) :
           /\ new_captions[j].name = uncached[new_captions[j].pos].name
           /\ new_captions[j].caption
                  = "caption of " \o _load_image_as_data_uri(uncached[new_captions[j].pos].name)
           /\ \A k \in 1..(j - 1) : new_captions[k].pos < new_captions[j].pos
    /\ \A k \in 1..Len(futures) :
           futures[k].pos <= current + (IF caption_pc = "caption" THEN 1 ELSE 0)

\* The first image failed to load, the caption of the second raised, and the
\* third was captioned.
C25_Witness ==
    /\ Len(uncached) = 3
    /\ Len(awaited) = 3 /\ awaited[1].state = "failed"
    /\ Len(caption_calls) = 2
    /\ Len(new_captions) = 1 /\ new_captions[1].pos = 3

\* The positions of the uncached images whose awaited load gave the data.
LoadedPositions == {awaited[j].pos : j \in {k \in 1..Len(awaited) : awaited[k].state = "loaded"}}

\* C29: when run has ended, each uncached image was awaited once, on a load
\* of that image; each one whose load gave the data was passed to
\* caption_image exactly once, whatever failed for the others, and the
\* others never; and the images captioned were passed to one call of
\* _inject_captions, all together, none being made when there is none.
C29_FailureSkipsOneImage ==
    caption_pc = "done" =>
        /\ Len(awaited) = Len(uncached)
        /\ \A k \in 1..Len(awaited) : awaited[k].pos = k /\ awaited[k].loads = k
        /\ \A k \in 1..Len(uncached) :
               Cardinality({j \in 1..Len(caption_calls) : caption_calls[j].pos = k})
                   = IF k \in LoadedPositions THEN 1 ELSE 0
        /\ injections = IF new_captions = <<>> THEN <<>> ELSE <<new_captions>>

\* The pre-fetch of the second image failed while the first was captioned,
\* and the first and the third were injected together.
C29_Witness ==
    /\ caption_pc = "done"
    /\ Len(uncached) = 3
    /\ awaited[2].state = "failed"
    /\ Len(injections) = 1
    /\ Len(injections[1]) = 2
    /\ injections[1][1].pos = 1 /\ injections[1][2].pos = 3

\* The number of status events with state "captioning" sent.
StatusEvents == Cardinality({j \in 1..Len(events) :
                                events[j].kind = "status" /\ events[j].state = "captioning"})

\* C30: when run has ended, the status event with state "captioning" was sent
\* exactly once if at least one image was not cached, and never if every
\* image was cached or there was no image.
C30_StatusOnlyWhenUncached ==
    caption_pc = "done" =>
        StatusEvents = IF \E k \in 1..Len(images) : ~images[k].cached THEN 1 ELSE 0

(***************************************************************************)
(* Further properties of the agent loop.                                   *)
(***************************************************************************)
\* The follow-up check has nothing to propose: no keyword of the query
\* survives the filtering, the conversation covers every keyword, or both
\* secondary tools are named by a tool message.
NothingToPropose ==
    \/ FollowupKeywords(query) = <<>>
    \/ \A k \in 1..Len(FollowupKeywords(query)) :
           _covered(FollowupKeywords(query)[k], ResultText(messages))
    \/ ToolMessagesNaming("semantic_search") # {} /\ ToolMessagesNaming("grep_files") # {}

\* C26: at a step after the first whose response holds no tool call, if the
\* follow-up check has nothing to propose, the run returns the response text
\* unchanged, with no further model call and no tool dispatch; and nothing
\* happens after the return.
C26_DirectAnswerReturned ==
    [][/\ (pc = "handle" /\ tool_call.kind = "none" /\ step > 0 /\ NothingToPropose) =>
              /\ pc' = "done"
              /\ answer' = PStr(raw)
              /\ UNCHANGED <<messages, model_calls, executed, notified, step>>
       /\ pc = "done" => UNCHANGED vars]_vars

\* A direct answer returned because the conversation covers every keyword.
C26_Witness ==
    /\ pc = "done"
    /\ step > 0
    /\ tool_call.kind = "none"
    /\ answer = PStr(raw)
    /\ FollowupKeywords(query) # <<>>
    /\ Missing(query, messages) = <<>>
    /\ ToolMessagesNaming("grep_files") = {}

\* C27: a run dispatches at most one tool per step, each at a step of the
\* loop, so at most MAX_STEPS in all; with an observer, on_step has been
\* called exactly once per dispatch, in the same order, with the step's
\* index and the tool and params dispatched, and for nothing else: not for
\* respond, a direct answer or the forced synthesis; without one, never.
C27_OneDispatchPerStep ==
    /\ Len(executed) <= MAX_STEPS
    /\ \A k \in 1..Len(executed) :
           /\ executed[k].step \in 0..(MAX_STEPS - 1)
           /\ executed[k].step <= step
           /\ executed[k].tool # PStr("respond")
           /\ \A j \in 1..(k - 1) : executed[j].step < executed[k].step
    /\ notified = IF has_on_step
                  THEN [k \in 1..Len(executed) |->
                           [step |-> executed[k].step, tool |-> executed[k].tool,
                            params |-> executed[k].params]]
                  ELSE <<>>

\* A run with an observer that dispatched at every step, the first by the
\* router, and ended by the forced synthesis.
C27_Witness ==
    /\ pc = "done"
    /\ has_on_step
    /\ Len(executed) = MAX_STEPS
    /\ Len(notified) = MAX_STEPS
    /\ executed[1].via = "router"
    /\ Last(model_calls).messages[Len(Last(model_calls).messages)] = FinalInstruction

\* What the router answers to the raw query and the intent of the rewrite.
RouterChoice == route(query, IF has_rewriter THEN rewritten.intent ELSE PNone)

\* C28: every call of the model is sent, as the user message after the
\* history, the rewrite's resolved_query; the tool the router dispatches is the
\* one route gives for the raw query and the rewrite's intent, with the
\* rewrite's search_query as query when the tool is semantic_search and with
\* the router's params unchanged otherwise; without a rewriter the raw query
\* stands in all three places.
C28_RewriteFeedsModelAndRouter ==
    [][/\ model_calls' # model_calls =>
              Last(model_calls').messages[Min({4, Len(history)}) + 2]
                  = Message("user", IF has_rewriter THEN rewritten.resolved_query ELSE PStr(query))
       /\ (Len(executed') = Len(executed) + 1 /\ Last(executed').via = "router") =>
              /\ Last(executed').tool = PStr(RouterChoice.tool)
              /\ Last(executed').params =
                     IF RouterChoice.tool = "semantic_search"
                     THEN Put(RouterChoice.params, "query",
                              IF has_rewriter THEN rewritten.search_query ELSE PStr(query))
                     ELSE RouterChoice.params]_vars

\* A rewrite that changed the query, and a routed tool other than
\* semantic_search dispatched with the router's params.
C28_Witness ==
    /\ has_rewriter
    /\ rewritten.kind = "ok"
    /\ rewritten.resolved_query # PStr(query)
    /\ rewritten.search_query # PStr(query)
    /\ executed # <<>>
    /\ executed[1].via = "router"
    /\ executed[1].tool = PStr("directory_tree")
    /\ model_calls[1].messages[Min({4, Len(history)}) + 2].content = rewritten.resolved_query

(***************************************************************************)
(* Who chooses the tool of a step (src/agent.py, Agent.run).               *)
(***************************************************************************)
\* The dispatches so far that came from the given chooser.
DispatchesVia(via) == {i \in DOMAIN executed : executed[i].via = via}

\* This step dispatches a tool chosen by the given chooser.
Consults(via) ==
    /\ Len(executed') = Len(executed) + 1
    /\ executed'[Len(executed')].via = via

\* This step returns the text of the model from inside the loop: the
\* follow-up check was asked and proposed nothing.
ReturnsPlainText == pc = "handle" /\ pc' = "done" /\ tool_call.kind = "none"

\* C36: the fallback router is consulted at most once per run, and only on
\* step 0 when the response held no tool call; the follow-up check is never
\* consulted on step 0; neither is consulted on a step whose response
\* parsed to a tool call.
C36_RouterOnceFollowupLater ==
    [][/\ Consults("router") =>
             step = 0 /\ tool_call.kind = "none" /\ DispatchesVia("router") = {}
       /\ (Consults("followup") \/ ReturnsPlainText) =>
             step > 0 /\ tool_call.kind = "none"
       /\ (pc = "handle" /\ tool_call.kind = "call") =>
             ~Consults("router") /\ ~Consults("followup") /\ ~ReturnsPlainText]_vars

\* A run in which the router chose the tool of step 0 and the follow-up
\* check the tool of a later step.
C36_Witness ==
    /\ \E i \in DispatchesVia("router") : executed[i].step = 0
    /\ \E j \in DispatchesVia("followup") : executed[j].step > 0

(***************************************************************************)
(* What the follow-up check reads (src/agent.py, Agent._needs_followup).   *)
(***************************************************************************)
\* The keywords of the query that no assistant or tool message of the
\* conversation holds, whole or as a stem.
UncoveredBefore ==
    {k \in Range(FollowupKeywords(query)) :
        \A i \in DOMAIN messages :
            messages[i].role \in {"assistant", "tool"} =>
                ~_covered(k, Lower(messages[i].content.s))}

\* Both follow-up tools appear in the tool messages of the conversation.
BothToolsUsed ==
    /\ Used(ToolsUsed(messages), "semantic_search")
    /\ Used(ToolsUsed(messages), "grep_files")

\* C37: when the follow-up check judges a plain-text response on a step
\* after the first, coverage is decided by the assistant and tool messages
\* already in the conversation, admitted history included, and not by the
\* response being judged: a follow-up is dispatched only for keywords those
\* messages do not hold, the response is returned only when they hold every
\* keyword or both tools were used, and a keyword that occurs only in the
\* response triggers a follow-up while a tool is left to try.
C37_JudgedResponseNotCovering ==
    [][(pc = "handle" /\ tool_call.kind = "none" /\ step > 0) =>
          /\ Consults("followup") => UncoveredBefore # {}
          /\ pc' = "done" => (UncoveredBefore = {} \/ BothToolsUsed)
          /\ ((\E k \in UncoveredBefore : Contains(Lower(raw), k)) /\ ~BothToolsUsed) =>
                Consults("followup")]_vars

\* The history held "macbook", the response being judged held "invoices"
\* and no earlier message did: the check asked for a search of "invoices".
C37_Witness ==
    /\ history # <<>>
    /\ Contains(Lower(raw), "invoices")
    /\ Len(executed) = 1
    /\ executed[1].via = "followup"
    /\ executed[1].tool = PStr("semantic_search")
    /\ executed[1].params = DictOf(<< <<"query", PStr("invoices")>> >>)
    /\ pc = "generate"

(***************************************************************************)
(* Properties of the server (ProtocolSpec).                                *)
(***************************************************************************)
\* The step is the handling of one parsed request.
Handles == handled' = handled + 1

\* C32: every parsed request gets exactly one response, and it carries the
\* id of the request; a handler that raises never stops the loop of run; and
\* once the loop has ended, after a shutdown was answered, no request is
\* handled any more.
C32_OneResponsePerRequest ==
    [][/\ Handles => /\ answered' = answered + 1
                      /\ reply'.id = request'.id
                      /\ reply'.type \in {"result", "error"}
                      /\ loop' # "raised"
       /\ loop = "ended" => ~Handles]_vars

\* The step prints the response to the request it handles.
Responded == Handles /\ answered' = answered + 1

\* The step handles a remove_directory request.
Removes == Handles /\ request'.method = PStr("remove_directory")

\* C33: as long as no request has failed by an exception, the server state
\* is "not_initialized" exactly when no directory is registered; a removal
\* that succeeds takes one directory away and leaves the state "ready"
\* unless it was the last one; a removal of an unknown directory is answered
\* with an error and changes nothing.
C33_StateFollowsDirectories ==
    /\ [](~faulted => (server_state = "not_initialized" <=> directories = <<>>))
    /\ [][/\ (Removes /\ Responded /\ reply'.type = "result") =>
                /\ Lookup(directories, request'.params.directoryId) # 0
                /\ directories' = Pop(directories, request'.params.directoryId.s)
                /\ server_state' = IF directories' = <<>> THEN "not_initialized" ELSE "ready"
          /\ (Removes /\ Lookup(directories, request'.params.directoryId) = 0) =>
                /\ reply'.type = "error"
                /\ UNCHANGED <<server_state, running, model_loaded, directories, disk>>]_vars

\* A directory was removed while another one stays registered.
C33_Witness ==
    /\ ~faulted
    /\ request.method = PStr("remove_directory")
    /\ reply.type = "result"
    /\ Len(directories) = 1
    /\ server_state = "ready"

\* The step handles a query request.
QueryHandled == Handles /\ request'.method = PStr("query")

\* handle_query turns the text q away: the server is not ready, or the text
\* is empty or too long.
Refused(q) == server_state # "ready" \/ q = "" \/ Len(q) > MAX_QUERY_CHARS

\* The directory p asks for cannot be queried: it is unknown or not ready,
\* or none is named and none is ready.
NoDirectory(p, pos) ==
    IF p.directoryId.t = "none" THEN ReadyPositions(directories) = <<>>
    ELSE pos = 0 \/ directories[pos].state # "ready"

\* An error response, no agent run, no history changed.
ErrorOnly == reply'.type = "error" /\ effects' = <<>> /\ directories' = directories

\* The agent of the first ready directory is run, before any other.
FirstReadyRuns ==
    /\ effects' # <<>>
    /\ effects'[1] = Effect("run", directories[ReadyPositions(directories)[1]].dir_id)

\* The claim as stated, for the query q of the request with parameters p.
AnswersAsStated(p, q, pos) ==
    /\ (Refused(q) \/ NoDirectory(p, pos)) => ErrorOnly
    /\ (~Refused(q) /\ p.directoryId.t = "none" /\ ~NoDirectory(p, pos)) => FirstReadyRuns

\* The same, the directory looked at only for a request without searchAll.
Answers(p, q, pos) ==
    /\ (Refused(q) \/ (~p.searchAll /\ NoDirectory(p, pos))) => ErrorOnly
    /\ (~Refused(q) /\ ~p.searchAll /\ p.directoryId.t = "none" /\ ~NoDirectory(p, pos)) =>
           (FirstReadyRuns /\ Len(effects') = 1)

AgentRaised == QueryHandled /\ Responded /\ reply'.data = "Internal server error"

\* The conversation history of the directory dir_id.
HistoryOf(dirs, dir_id) == dirs[Position(dirs, dir_id)].conversation_history

\* The agent of dir_id was run once, as the last thing the handler did, and
\* the history of dir_id is what it was.
RanOnceAndForgot(dir_id) ==
    /\ Len(SelectSeq(effects', LAMBDA e : e = Effect("run", dir_id))) = 1
    /\ Position(directories, dir_id) # 0
    /\ Position(directories', dir_id) # 0
    /\ HistoryOf(directories', dir_id) = HistoryOf(directories, dir_id)

\* C38: when agent.run raises inside a query, the agent is not run again,
\* the request is answered by one error response, the loop goes on, and the
\* conversation history of the directory whose agent raised is what it was
\* before the query.
C38_RaisingRunLeavesHistory ==
    [][AgentRaised => /\ effects' # <<>>
                      /\ effects'[Len(effects')].op = "run"
                      /\ RanOnceAndForgot(effects'[Len(effects')].on)
                      /\ answered' = answered + 1
                      /\ reply'.type = "error"
                      /\ reply'.id = request'.id
                      /\ loop' = "reading"]_vars

\* A query on a directory with an exchange in its history ended by the
\* exception of its agent.
C38_Witness ==
    /\ request.method = PStr("query")
    /\ reply = Reply(request.id, "error", "Internal server error")
    /\ effects = <<Effect("run", "docs")>>
    /\ Position(directories, "docs") # 0
    /\ Len(HistoryOf(directories, "docs")) = 2
    /\ loop = "reading"

\* C39: every directory the server lists in state "ready" has its index on
\* disk, whatever init, reindex and remove_directory requests came before,
\* a reindex whose re-initialisation failed included.
C39_ReadyHasIndex ==
    \A i \in DOMAIN directories :
        directories[i].state = "ready" => directories[i].index_name \in disk

(***************************************************************************)
(* Properties of the indexer (IndexerSpec).                                *)
(***************************************************************************)
\* The places of the calls of op among what the call of the step did.
Doing(op) == {i \in DOMAIN indexer_calls' : indexer_calls'[i].op = op}

\* The files the call of the step handed to extract_file_sync, in order.
Extracted == [i \in 1..Cardinality(Doing("extract")) |->
                 SelectSeq(indexer_calls', LAMBDA c : c.op = "extract")[i].on]

\* A full rebuild: every supported file is extracted, update_index is never
\* called, build_index is called once and the manifest written after it,
\* unless no chunk was extracted, when the call raises and writes nothing.
FullRebuild ==
    /\ Extracted = SelectSeq(Present(data_dir), Supported)
    /\ Doing("update_index") = {}
    /\ \A i \in Doing("write_manifest") : \E j \in Doing("build_index") : j < i
    /\ IF invoked'.outcome = "returned"
       THEN /\ Cardinality(Doing("build_index")) = 1
            /\ Cardinality(Doing("write_manifest")) = 1
            /\ index_meta'
            /\ manifest_json' # <<>>
       ELSE /\ Doing("build_index") = {}
            /\ Doing("write_manifest") = {}
            /\ \A i \in Doing("extract") : Extraction(indexer_calls'[i].on, "raise").chunks = 0
            /\ UNCHANGED <<index_meta, manifest_json>>

\* C34: build chooses its mode from the index it finds.  Without force, an
\* index that has a manifest is only updated (build_index is never called)
\* and an index without a manifest is left as it is, nothing extracted;
\* with force, or with no index, a full rebuild runs: build_index and never
\* update_index, the manifest written only after the index was built.
C34_BuildModes ==
    [][invoked'.call = "build" =>
          IF invoked'.force \/ ~index_meta THEN FullRebuild
          ELSE IF manifest_json # <<>>
          THEN /\ Doing("build_index") = {}
               /\ index_meta'
               /\ invoked'.outcome = "returned"
          ELSE /\ indexer_calls' = <<>>
               /\ invoked'.outcome = "returned"
               /\ UNCHANGED <<index_meta, manifest_json>>]_vars

\* A build without force found an index with a manifest and a changed file,
\* and updated the index.
C34_Witness ==
    /\ invoked = [call |-> "build", force |-> FALSE, outcome |-> "returned"]
    /\ indexer_calls = <<Effect("extract", "report.pdf"), Effect("update_index", ""),
                          Effect("write_manifest", "")>>
    /\ index_meta
    /\ data_dir["notes.txt"] > 0

\* The records of the manifest on disk before the step.
Listed == IF manifest_json = <<>> THEN {} ELSE {manifest_json[1].files[i] : i \in DOMAIN manifest_json[1].files}

\* The supported files of the directory that the manifest does not list with
\* their current mtime.
Due ==
    {n \in DOMAIN data_dir :
        /\ data_dir[n] > 0
        /\ Supported(n)
        /\ \A rec \in Listed : rec.path = n => rec.mtime # data_dir[n]}

\* The step ran incremental_update, called directly or by build.
Updates ==
    \/ invoked'.call = "incremental_update"
    \/ invoked'.call = "build" /\ ~invoked'.force /\ index_meta /\ manifest_json # <<>>

\* C35: incremental_update extracts exactly the supported files that the
\* manifest lacks or lists with another mtime than the current one, each
\* once; the manifest entries of the other files stay as they were; and
\* when no file is to be processed it writes neither index nor manifest.
C35_ExtractsChangedOnly ==
    [][Updates =>
          /\ {Extracted[i] : i \in DOMAIN Extracted} = Due
          /\ Len(Extracted) = Cardinality(Due)
          /\ \A rec \in Listed :
                rec.path \notin Due =>
                    /\ manifest_json' # <<>>
                    /\ \E i \in DOMAIN manifest_json'[1].files : manifest_json'[1].files[i] = rec
          /\ Due = {} => /\ indexer_calls' = <<>>
                         /\ UNCHANGED <<index_meta, manifest_json>>
          /\ Due # {} => Cardinality(Doing("write_manifest")) = 1]_vars

\* incremental_update found report.pdf changed and notes.txt as the
\* manifest lists it: it extracted report.pdf only and kept both entries.
C35_Witness ==
    /\ invoked = [call |-> "incremental_update", force |-> FALSE, outcome |-> "returned"]
    /\ indexer_calls = <<Effect("extract", "report.pdf"), Effect("update_index", ""),
                          Effect("write_manifest", "")>>
    /\ manifest_json = <<Manifest(<<FileRecord("notes.txt", 1, 1), FileRecord("report.pdf", 2, 2)>>)>>
    /\ data_dir["notes.txt"] = 1
    /\ data_dir["report.pdf"] = 2

================================================================
